---- MODULE Spec2Model ----
(***************************************************************************)
(* Carbon-aware checkout: substitute search, beam-search basket            *)
(* optimisation, acceptance prediction and the analyze_basket pipeline.    *)
(*                                                                         *)
(* Fixed-point units (the code computes with floats):                      *)
(*   emissions      tenths of a kg CO2e      (60.0  -> 600)                *)
(*   price, cost    cents                    (8.99  -> 899)                *)
(*   health         hundredths               (0.85  -> 85)                 *)
(*   similarity     thousandths              (0.994 -> 994)                *)
(*   price delta    thousandths              (0.03  -> 30)                 *)
(*   probability    ten-thousandths          (0.36  -> 3600)               *)
(* Python dicts with optional keys are functions whose DOMAIN holds the    *)
(* keys that are present; Get is dict.get.                                 *)
(***************************************************************************)
EXTENDS Integers, Sequences, FiniteSets, TLC

\* dict.get(k, d)
Get(d, k, default) == IF k \in DOMAIN d THEN d[k] ELSE default

\* the dict with no keys
EmptyDict == [k \in {} |-> 0]

RECURSIVE SumTo(_, _)
SumTo(s, n) == IF n = 0 THEN 0 ELSE s[n] + SumTo(s, n - 1)

\* sum(s)
SumSeq(s) == SumTo(s, Len(s))

Abs(x) == IF x < 0 THEN -x ELSE x

RECURSIVE ISqrtBetween(_, _, _)
\* the largest r in lo..hi with r*r <= n  (lo*lo <= n assumed)
ISqrtBetween(n, lo, hi) ==
    IF lo >= hi THEN lo
    ELSE LET mid == (lo + hi + 1) \div 2
         IN  IF mid * mid <= n THEN ISqrtBetween(n, mid, hi)
                               ELSE ISqrtBetween(n, lo, mid - 1)

\* floor of the square root (numpy.linalg.norm's sqrt, in fixed point)
ISqrt(n) == ISqrtBetween(n, 0, 46340)

RECURSIVE SeqOfSet(_)
\* the elements of a finite set in some fixed order (list(set(...)))
SeqOfSet(S) ==
    IF S = {} THEN <<>>
    ELSE LET x == CHOOSE y \in S : TRUE IN <<x>> \o SeqOfSet(S \ {x})

\* the sequence s with every element evaluated once
Seq1(s) == s \o <<>>

RECURSIVE SortedFrom(_, _, _, _)
\* the first n elements, in sorted order, of the elements of s at the
\* positions in rest: the smallest key first, and among equal keys the
\* element that stands first in s
SortedFrom(s, k, rest, n) ==
    IF n = 0 \/ rest = {} THEN <<>>
    ELSE LET keys == {k[j] : j \in rest}
             m == CHOOSE x \in keys : \A y \in keys : x <= y
             i == CHOOSE j \in rest : k[j] = m /\ \A h \in rest : k[h] = m => j <= h
         IN  <<s[i]>> \o SortedFrom(s, k, rest \ {i}, n - 1)

\* s.sort(key=...) followed by s[:n]: ascending and stable
SortedPrefix(s, key(_), n) ==
    SortedFrom(s, Seq1([i \in DOMAIN s |-> key(s[i])]), DOMAIN s, n)

\* list.sort(key=...): ascending and stable
SortByKey(s, key(_)) == SortedPrefix(s, key, Len(s))

\* s[:n]
Take(s, n) == SubSeq(s, 1, IF n < Len(s) THEN n ELSE Len(s))

Range(s) == {s[i] : i \in DOMAIN s}

(***************************************************************************)
(* Strings: str.lower() and the substring test "a in b"                    *)
(***************************************************************************)
\* the lower-cased characters of every string the model compares
lowered ==
    "Beef" :> <<"b", "e", "e", "f">> @@
    "Pork" :> <<"p", "o", "r", "k">> @@
    "Lamb & Mutton" :> <<"l", "a", "m", "b", " ", "&", " ", "m", "u", "t", "t", "o", "n">> @@
    "Poultry Meat" :> <<"p", "o", "u", "l", "t", "r", "y", " ", "m", "e", "a", "t">> @@
    "Chicken" :> <<"c", "h", "i", "c", "k", "e", "n">> @@
    "Fish" :> <<"f", "i", "s", "h">> @@
    "Prawns" :> <<"p", "r", "a", "w", "n", "s">> @@
    "Tofu" :> <<"t", "o", "f", "u">> @@
    "Tempeh" :> <<"t", "e", "m", "p", "e", "h">> @@
    "Peas" :> <<"p", "e", "a", "s">> @@
    "Beans" :> <<"b", "e", "a", "n", "s">> @@
    "Legumes" :> <<"l", "e", "g", "u", "m", "e", "s">> @@
    "Nuts" :> <<"n", "u", "t", "s">> @@
    "Groundnuts" :> <<"g", "r", "o", "u", "n", "d", "n", "u", "t", "s">> @@
    "Other Pulses" :> <<"o", "t", "h", "e", "r", " ", "p", "u", "l", "s", "e", "s">> @@
    "Milk" :> <<"m", "i", "l", "k">> @@
    "Cheese" :> <<"c", "h", "e", "e", "s", "e">> @@
    "Eggs" :> <<"e", "g", "g", "s">> @@
    "Soy milk" :> <<"s", "o", "y", " ", "m", "i", "l", "k">> @@
    "Oat milk" :> <<"o", "a", "t", " ", "m", "i", "l", "k">> @@
    "Almond milk" :> <<"a", "l", "m", "o", "n", "d", " ", "m", "i", "l", "k">> @@
    "Rice milk" :> <<"r", "i", "c", "e", " ", "m", "i", "l", "k">> @@
    "Plant Milk" :> <<"p", "l", "a", "n", "t", " ", "m", "i", "l", "k">> @@
    "Wheat & Rye" :> <<"w", "h", "e", "a", "t", " ", "&", " ", "r", "y", "e">> @@
    "Bread" :> <<"b", "r", "e", "a", "d">> @@
    "Rice" :> <<"r", "i", "c", "e">> @@
    "Oatmeal" :> <<"o", "a", "t", "m", "e", "a", "l">> @@
    "Barley" :> <<"b", "a", "r", "l", "e", "y">> @@
    "Maize" :> <<"m", "a", "i", "z", "e">> @@
    "Grains" :> <<"g", "r", "a", "i", "n", "s">> @@
    "Tomatoes" :> <<"t", "o", "m", "a", "t", "o", "e", "s">> @@
    "Onions & Leeks" :> <<"o", "n", "i", "o", "n", "s", " ", "&", " ", "l", "e", "e", "k", "s">> @@
    "Root Vegetables" :> <<"r", "o", "o", "t", " ", "v", "e", "g", "e", "t", "a", "b", "l", "e", "s">> @@
    "Brassicas" :> <<"b", "r", "a", "s", "s", "i", "c", "a", "s">> @@
    "Vegetables" :> <<"v", "e", "g", "e", "t", "a", "b", "l", "e", "s">> @@
    "Other Vegetables" :> <<"o", "t", "h", "e", "r", " ", "v", "e", "g", "e", "t", "a", "b", "l", "e", "s">> @@
    "Apples" :> <<"a", "p", "p", "l", "e", "s">> @@
    "Bananas" :> <<"b", "a", "n", "a", "n", "a", "s">> @@
    "Berries & Grapes" :> <<"b", "e", "r", "r", "i", "e", "s", " ", "&", " ", "g", "r", "a", "p", "e", "s">> @@
    "Citrus Fruit" :> <<"c", "i", "t", "r", "u", "s", " ", "f", "r", "u", "i", "t">> @@
    "Fruit" :> <<"f", "r", "u", "i", "t">> @@
    "Other Fruit" :> <<"o", "t", "h", "e", "r", " ", "f", "r", "u", "i", "t">> @@
    "Olive Oil" :> <<"o", "l", "i", "v", "e", " ", "o", "i", "l">> @@
    "Palm Oil" :> <<"p", "a", "l", "m", " ", "o", "i", "l">> @@
    "Sunflower Oil" :> <<"s", "u", "n", "f", "l", "o", "w", "e", "r", " ", "o", "i", "l">> @@
    "Rapeseed Oil" :> <<"r", "a", "p", "e", "s", "e", "e", "d", " ", "o", "i", "l">> @@
    "Sugar" :> <<"s", "u", "g", "a", "r">> @@
    "Sugar (cane)" :> <<"s", "u", "g", "a", "r", " ", "(", "c", "a", "n", "e", ")">> @@
    "Sugar (beet)" :> <<"s", "u", "g", "a", "r", " ", "(", "b", "e", "e", "t", ")">> @@
    "Coffee" :> <<"c", "o", "f", "f", "e", "e">> @@
    "Dark Chocolate" :> <<"d", "a", "r", "k", " ", "c", "h", "o", "c", "o", "l", "a", "t", "e">> @@
    "Wine" :> <<"w", "i", "n", "e">> @@
    "Beef (beef herd)" :> <<"b", "e", "e", "f", " ", "(", "b", "e", "e", "f", " ", "h", "e", "r", "d", ")">> @@
    "Beef (dairy herd)" :> <<"b", "e", "e", "f", " ", "(", "d", "a", "i", "r", "y", " ", "h", "e", "r", "d", ")">> @@
    "Fish (farmed)" :> <<"f", "i", "s", "h", " ", "(", "f", "a", "r", "m", "e", "d", ")">> @@
    "Prawns (farmed)" :> <<"p", "r", "a", "w", "n", "s", " ", "(", "f", "a", "r", "m", "e", "d", ")">> @@
    "Wheat & Rye (Bread)" :> <<"w", "h", "e", "a", "t", " ", "&", " ", "r", "y", "e", " ", "(", "b", "r", "e", "a", "d", ")">> @@
    "Maize (Meal)" :> <<"m", "a", "i", "z", "e", " ", "(", "m", "e", "a", "l", ")">> @@
    "Barley (Beer)" :> <<"b", "a", "r", "l", "e", "y", " ", "(", "b", "e", "e", "r", ")">> @@
    "beef_001" :> <<"b", "e", "e", "f", "_", "0", "0", "1">> @@
    "beef_002" :> <<"b", "e", "e", "f", "_", "0", "0", "2">> @@
    "chicken_001" :> <<"c", "h", "i", "c", "k", "e", "n", "_", "0", "0", "1">> @@
    "chicken_002" :> <<"c", "h", "i", "c", "k", "e", "n", "_", "0", "0", "2">> @@
    "tofu_001" :> <<"t", "o", "f", "u", "_", "0", "0", "1">> @@
    "tofu_002" :> <<"t", "o", "f", "u", "_", "0", "0", "2">> @@
    "tempeh_001" :> <<"t", "e", "m", "p", "e", "h", "_", "0", "0", "1">> @@
    "beans_001" :> <<"b", "e", "a", "n", "s", "_", "0", "0", "1">> @@
    "milk_001" :> <<"m", "i", "l", "k", "_", "0", "0", "1">> @@
    "milk_002" :> <<"m", "i", "l", "k", "_", "0", "0", "2">> @@
    "oat_milk_001" :> <<"o", "a", "t", "_", "m", "i", "l", "k", "_", "0", "0", "1">> @@
    "almond_milk_001" :> <<"a", "l", "m", "o", "n", "d", "_", "m", "i", "l", "k", "_", "0", "0", "1">> @@
    "soy_milk_001" :> <<"s", "o", "y", "_", "m", "i", "l", "k", "_", "0", "0", "1">> @@
    "pork_001" :> <<"p", "o", "r", "k", "_", "0", "0", "1">> @@
    "pork_002" :> <<"p", "o", "r", "k", "_", "0", "0", "2">> @@
    "fish_001" :> <<"f", "i", "s", "h", "_", "0", "0", "1">> @@
    "fish_002" :> <<"f", "i", "s", "h", "_", "0", "0", "2">> @@
    "apple_001" :> <<"a", "p", "p", "l", "e", "_", "0", "0", "1">> @@
    "apple_002" :> <<"a", "p", "p", "l", "e", "_", "0", "0", "2">> @@
    "apple_003" :> <<"a", "p", "p", "l", "e", "_", "0", "0", "3">> @@
    "TOFU_001" :> <<"t", "o", "f", "u", "_", "0", "0", "1">> @@
    "Organic Soy milk" :> <<"o", "r", "g", "a", "n", "i", "c", " ", "s", "o", "y", " ", "m", "i", "l", "k">> @@
    "Unknown" :> <<"u", "n", "k", "n", "o", "w", "n">> @@
    "" :> <<>>

\* s.lower(), as its sequence of characters
Lower(s) == lowered[s]

\* needle in hay, for sequences of characters
Contains(hay, needle) ==
    \E k \in 0..(Len(hay) - Len(needle)) :
        \A j \in 1..Len(needle) : hay[k + j] = needle[j]

(***************************************************************************)
(* HealthScorer                                                            *)
(***************************************************************************)
\* the health database in the order it is built: key, score
health_items ==
    <<<<"Beef", 40>>, <<"Pork", 50>>, <<"Lamb & Mutton", 45>>,
      <<"Poultry Meat", 70>>, <<"Chicken", 70>>, <<"Fish", 85>>,
      <<"Prawns", 75>>, <<"Tofu", 80>>, <<"Tempeh", 85>>, <<"Peas", 90>>,
      <<"Beans", 90>>, <<"Legumes", 90>>, <<"Nuts", 85>>,
      <<"Groundnuts", 80>>, <<"Other Pulses", 85>>, <<"Milk", 60>>,
      <<"Cheese", 50>>, <<"Eggs", 65>>, <<"Soy milk", 75>>,
      <<"Oat milk", 70>>, <<"Almond milk", 70>>, <<"Rice milk", 65>>,
      <<"Plant Milk", 70>>, <<"Wheat & Rye", 70>>, <<"Bread", 65>>,
      <<"Rice", 60>>, <<"Oatmeal", 85>>, <<"Barley", 75>>, <<"Maize", 65>>,
      <<"Grains", 70>>, <<"Tomatoes", 95>>, <<"Onions & Leeks", 90>>,
      <<"Root Vegetables", 85>>, <<"Brassicas", 95>>, <<"Vegetables", 90>>,
      <<"Other Vegetables", 90>>, <<"Apples", 95>>, <<"Bananas", 90>>,
      <<"Berries & Grapes", 95>>, <<"Citrus Fruit", 95>>, <<"Fruit", 90>>,
      <<"Other Fruit", 90>>, <<"Olive Oil", 75>>, <<"Palm Oil", 40>>,
      <<"Sunflower Oil", 60>>, <<"Rapeseed Oil", 65>>, <<"Sugar", 20>>,
      <<"Sugar (cane)", 20>>, <<"Sugar (beet)", 20>>, <<"Coffee", 60>>,
      <<"Dark Chocolate", 55>>, <<"Wine", 40>>>>

\* its keys, in iteration order
health_keys == [i \in DOMAIN health_items |-> health_items[i][1]]

health_db ==
    [k \in Range(health_keys) |->
        health_items[CHOOSE i \in DOMAIN health_items : health_items[i][1] = k][2]]

DefaultHealth == 50

\* direct lookup by id, then by category, then the first key that is a
\* case-insensitive substring of the id, else the moderate default
get_health_score(product_id, category) ==
    LET PartOfId(k) == Contains(Lower(product_id), Lower(k))
        hits == SelectSeq(health_keys, PartOfId)
    IN  IF product_id \in DOMAIN health_db THEN health_db[product_id]
        ELSE IF category # "" /\ category \in DOMAIN health_db THEN health_db[category]
        ELSE IF hits # <<>> THEN health_db[hits[1]]
        ELSE DefaultHealth

(***************************************************************************)
(* SubstituteEngine: the synthetic product database                        *)
(***************************************************************************)
P(id, category, emissions, price, vegetarian, allergens) ==
    [id |-> id, category |-> category, emissions |-> emissions, price |-> price,
     vegetarian |-> vegetarian, allergens |-> allergens]

products ==
    << P("beef_001", "Beef", 600, 899, FALSE, {}),
       P("beef_002", "Beef", 650, 1299, FALSE, {}),
       P("chicken_001", "Chicken", 69, 699, FALSE, {}),
       P("chicken_002", "Chicken", 72, 599, FALSE, {}),
       P("tofu_001", "Tofu", 20, 399, TRUE, {"soy"}),
       P("tofu_002", "Tofu", 21, 449, TRUE, {"soy"}),
       P("tempeh_001", "Tempeh", 23, 499, TRUE, {"soy"}),
       P("beans_001", "Legumes", 9, 199, TRUE, {}),
       P("milk_001", "Milk", 32, 499, TRUE, {"dairy"}),
       P("milk_002", "Milk", 30, 479, TRUE, {"dairy"}),
       P("oat_milk_001", "Plant Milk", 9, 449, TRUE, {}),
       P("almond_milk_001", "Plant Milk", 7, 499, TRUE, {"nuts"}),
       P("soy_milk_001", "Plant Milk", 8, 399, TRUE, {"soy"}),
       P("pork_001", "Pork", 121, 799, FALSE, {}),
       P("pork_002", "Pork", 118, 699, FALSE, {}),
       P("fish_001", "Fish", 119, 1499, FALSE, {"fish"}),
       P("fish_002", "Fish", 61, 999, FALSE, {"fish"}) >>

ProductIds == {products[i].id : i \in DOMAIN products}

\* a product with its health score added
WithHealth(p) ==
    [id |-> p.id, category |-> p.category, emissions |-> p.emissions,
     price |-> p.price, vegetarian |-> p.vegetarian, allergens |-> p.allergens,
     health |-> get_health_score(p.id, p.category)]

\* the database the engine builds: id -> product
IndexById(ps) ==
    [id \in {ps[i].id : i \in DOMAIN ps} |->
        WithHealth(ps[CHOOSE i \in DOMAIN ps : ps[i].id = id])]

synthetic_product_db == IndexById(products)

\* category -> the ids of the category, in catalog order
IndexByCategory(ps) ==
    [c \in {ps[i].category : i \in DOMAIN ps} |->
        LET InCat(p) == p.category = c
            members == SelectSeq(ps, InCat)
        IN  [i \in DOMAIN members |-> members[i].id]]

built_category_index == IndexByCategory(products)

\* the feature vector, in units of 1/2000
create_embedding(product) ==
    << 2 * product.emissions,
       product.price,
       20 * product.health,
       IF product.vegetarian THEN 2000 ELSE 0,
       400 * Cardinality(product.allergens) >>

\* id -> embedding, for every product of the database
EmbedAll(db) == [id \in DOMAIN db |-> create_embedding(db[id])]

built_embeddings == EmbedAll(synthetic_product_db)

\* a database stored at product_db_path: the synthetic products and three of a
\* category outside the protein and the milk family, two of them with the same
\* emissions, price, health score and diet
stored_products ==
    products \o << P("apple_001", "Fruit", 4, 299, TRUE, {}),
                   P("apple_002", "Fruit", 3, 249, TRUE, {}),
                   P("apple_003", "Fruit", 3, 249, TRUE, {}) >>

stored_product_db == IndexById(stored_products)

stored_category_index == IndexByCategory(stored_products)

stored_embeddings == EmbedAll(stored_product_db)

\* the SubstituteEngine's product_db, category_index and embeddings, and the
\* EmissionsEngine's footprint_db
VARIABLES product_db, category_index, embeddings, footprint_db

engine_vars == <<product_db, category_index, embeddings, footprint_db>>

\* the order in which this process iterates a set of product ids: a set of str
\* is ordered by the hashes of its members, which are seeded when the process
\* starts
VARIABLE set_order

\* two opposite orders: between them every two ids come in both orders
SetOrders == {"forward", "backward"}

\* the processes that run on the synthetic database: no two of its products
\* that are candidates of one product have the same emissions, so the sort of
\* find_substitutes leaves nothing of the set order in its result
\* (SyntheticRankingHasNoTies)
SyntheticProcess == set_order = "forward"

Reverse(s) == [i \in DOMAIN s |-> s[Len(s) + 1 - i]]

\* list(set(candidates)) of _get_candidates, in this process
ListOfSet(S) ==
    IF set_order = "forward" THEN SeqOfSet(S) ELSE Seq1(Reverse(SeqOfSet(S)))

Dot(a, b) == SumSeq([i \in DOMAIN a |-> a[i] * b[i]])

Norm(a) == ISqrt(Dot(a, a))

\* 1000 at most
Cap1000(x) == IF x > 1000 THEN 1000 ELSE x

\* (dot / (norm1 * norm2) + 1) / 2 in thousandths; 500 when a norm is zero
Rescaled(dot, norm1, norm2) ==
    IF norm1 = 0 \/ norm2 = 0 THEN 500
    ELSE Cap1000(500 + (100 * dot) \div ((norm1 * norm2) \div 5))

\* the cosine similarity of two embeddings rescaled from [-1,1] to [0,1]
Cosine(emb1, emb2) == Rescaled(Dot(emb1, emb2), Norm(emb1), Norm(emb2))

\* 500 when an embedding is missing, else the rescaled cosine similarity
compute_similarity(product_id1, product_id2) ==
    IF product_id1 \notin DOMAIN embeddings \/ product_id2 \notin DOMAIN embeddings
    THEN 500
    ELSE Cosine(embeddings[product_id1], embeddings[product_id2])

\* Python's None, as a dict no product equals
None == [none |-> TRUE]

\* product_db.get(product_id)
get_product_info(product_id) ==
    IF product_id \in DOMAIN product_db THEN product_db[product_id] ELSE None

protein_categories == {"Beef", "Chicken", "Pork", "Fish", "Tofu", "Tempeh", "Legumes"}

milk_categories == {"Milk", "Plant Milk"}

IndexedIds(cats) ==
    UNION {Range(category_index[c]) : c \in cats \cap DOMAIN category_index}

\* the mutant of get_candidates: the protein expansion applied to every category
get_candidates_AnyFamily(original, cons) ==
    IndexedIds({original.category}) \cup IndexedIds(protein_categories)

\* same category, plus the whole protein family or the whole milk family when
\* the category belongs to it; list(set(...)): a set
get_candidates(original, cons) ==
    IndexedIds({original.category})
        \cup (IF original.category \in protein_categories
              THEN IndexedIds(protein_categories) ELSE {})
        \cup (IF original.category \in milk_categories
              THEN IndexedIds(milk_categories) ELSE {})

\* one candidate passes the dietary, allergen and unit-price filters
PassesFilter(candidate, cons) ==
    /\ ~(Get(cons, "vegetarian", FALSE) /\ ~candidate.vegetarian)
    /\ ~(Get(cons, "vegan", FALSE)
            /\ (~candidate.vegetarian \/ "dairy" \in candidate.allergens))
    /\ Get(cons, "allergens", {}) \cap candidate.allergens = {}
    /\ ~(Get(cons, "max_price", 0) # 0 /\ candidate.price > Get(cons, "max_price", 0))

filter_by_constraints(candidates, cons) ==
    {id \in candidates : PassesFilter(product_db[id], cons)}

\* the sort key of find_substitutes, as one integer: the pair
\* (original emissions - candidate emissions, -similarity) in lexicographic order
RankKey(original, c) ==
    (original.emissions - c.emissions) * 1001 + (1000 - c.similarity_score)

ScoredCandidates(product_id, candidates) ==
    LET ids == ListOfSet(candidates \ {product_id})
    IN  Seq1([i \in DOMAIN ids |->
            LET candidate == product_db[ids[i]]
            IN  [product_id |-> ids[i], category |-> candidate.category,
                 emissions |-> candidate.emissions, price |-> candidate.price,
                 similarity_score |-> compute_similarity(product_id, ids[i]),
                 health_score |-> candidate.health]])

RankCandidates(original, scored) ==
    LET key(c) == RankKey(original, c) IN SortByKey(scored, key)

find_substitutes(product_id, cons, max_results) ==
    IF product_id \notin DOMAIN product_db THEN <<>>
    ELSE LET original == product_db[product_id]
             candidates == filter_by_constraints(get_candidates(original, cons), cons)
         IN  Take(RankCandidates(original, ScoredCandidates(product_id, candidates)),
                  max_results)

(***************************************************************************)
(* BasketOptimizer                                                         *)
(***************************************************************************)
\* max_results of the optimizer's find_substitutes call
OptimizerMaxResults == 10

Default_beam_width == 10

Default_max_price_delta == 30

\* the weights of the objective, in tenths
Default_weight_emissions == 10

Default_weight_cost == 1

Default_weight_dissimilarity == 5

Default_weight_health == 3

beam_width(cfg) == Get(cfg, "beam_width", Default_beam_width)

\* the substitutes of find_substitutes (max_results = 10) as SwapCandidates;
\* none when the product is unknown to the catalog
get_substitutes(product_id, cons) ==
    LET substitutes == find_substitutes(product_id, cons, OptimizerMaxResults)
        original == get_product_info(product_id)
    IN  IF original = None THEN <<>>
        ELSE Seq1([i \in DOMAIN substitutes |->
                [original_product_id |-> product_id,
                 substitute_product_id |-> substitutes[i].product_id,
                 emissions_reduction |-> original.emissions - substitutes[i].emissions,
                 cost_change |-> substitutes[i].price - original.price,
                 similarity_score |-> substitutes[i].similarity_score,
                 category |-> substitutes[i].category]])

\* sum(p.get("emissions", 0) for p in basket): not weighted by quantity
BasketEmissions(b) == SumSeq([i \in DOMAIN b |-> Get(b[i], "emissions", 0)])

\* sum(p["price"] * p["quantity"] for p in basket)
BasketCost(b) == SumSeq([i \in DOMAIN b |-> b[i].price * b[i].quantity])

\* sum(p.get("price", 0) * p.get("quantity", 1) for p in basket)
BasketCostGet(b) ==
    SumSeq([i \in DOMAIN b |-> Get(b[i], "price", 0) * Get(b[i], "quantity", 1)])

\* the sum over the positions whose product differs of (1 - similarity), in
\* thousandths; the code divides it by the basket size (see compute_objective)
compute_basket_dissimilarity(basket1, basket2) ==
    IF Len(basket1) # Len(basket2) THEN 1000 * Len(basket1)
    ELSE SumSeq([i \in DOMAIN basket1 |->
            IF basket1[i].product_id = basket2[i].product_id THEN 0
            ELSE 1000 - compute_similarity(basket1[i].product_id,
                                           basket2[i].product_id)])

\* the objective with the default weights whatever the configuration
compute_objective_DefaultWeights(b, original_basket, cfg) ==
    LET n == Len(b)
        emissions == BasketEmissions(b)
        cost == BasketCost(b)
        health == SumSeq([i \in DOMAIN b |-> Get(b[i], "health_score", DefaultHealth)])
        dissimilarity ==
            IF original_basket # <<>>
            THEN compute_basket_dissimilarity(b, original_basket) ELSE 0
    IN  IF n = 0 THEN Default_weight_health * 500
        ELSE Default_weight_emissions * emissions * 100 * n
               + Default_weight_cost * cost * 10 * n
               + Default_weight_dissimilarity * dissimilarity
               + 10 * Default_weight_health * (100 * n - health)

\* J(B') = alpha*E(B') + beta*C(B') + gamma*D(B,B') + delta*(1-H(B')), as the
\* integer 10000 * len(B') * J(B'): every basket of one run has the same
\* length, so the order of the scores is the order of J.  For the empty basket
\* (health 0.5, everything else 0) the integer is 10000 * J.
compute_objective(b, original_basket, cfg) ==
    LET alpha == Get(cfg, "weight_emissions", Default_weight_emissions)
        beta == Get(cfg, "weight_cost", Default_weight_cost)
        gamma == Get(cfg, "weight_dissimilarity", Default_weight_dissimilarity)
        delta == Get(cfg, "weight_health", Default_weight_health)
        n == Len(b)
        emissions == BasketEmissions(b)
        cost == BasketCost(b)
        health == SumSeq([i \in DOMAIN b |-> Get(b[i], "health_score", DefaultHealth)])
        dissimilarity ==
            IF original_basket # <<>>
            THEN compute_basket_dissimilarity(b, original_basket) ELSE 0
    IN  IF n = 0 THEN delta * 500
        ELSE alpha * emissions * 100 * n + beta * cost * 10 * n
               + gamma * dissimilarity + 10 * delta * (100 * n - health)

\* the swap that gives the substitute the quantity 1
apply_swap_UnitQuantity(b, product_idx, swap) ==
    LET sub_product == get_product_info(swap.substitute_product_id)
    IN  IF sub_product = None THEN b
        ELSE [b EXCEPT ![product_idx] =
                [product_id |-> swap.substitute_product_id,
                 quantity |-> 1,
                 price |-> sub_product.price,
                 emissions |-> sub_product.emissions,
                 category |-> sub_product.category,
                 health_score |-> sub_product.health,
                 vegetarian |-> sub_product.vegetarian,
                 allergens |-> sub_product.allergens]]

\* the basket with position product_idx replaced by the substitute's catalog
\* data, the quantity kept; the basket unchanged when the substitute cannot be
\* resolved
apply_swap(b, product_idx, swap) ==
    LET sub_product == get_product_info(swap.substitute_product_id)
    IN  IF sub_product = None THEN b
        ELSE [b EXCEPT ![product_idx] =
                [product_id |-> swap.substitute_product_id,
                 quantity |-> Get(b[product_idx], "quantity", 1),
                 price |-> sub_product.price,
                 emissions |-> sub_product.emissions,
                 category |-> sub_product.category,
                 health_score |-> sub_product.health,
                 vegetarian |-> sub_product.vegetarian,
                 allergens |-> sub_product.allergens]]

\* the price check that bounds only a cost increase
PriceOk_IncreaseOnly(new_basket, original_basket, cons, cfg) ==
    LET original_cost == BasketCostGet(original_basket)
        new_cost == BasketCostGet(new_basket)
        max_delta == Get(cons, "max_price_delta",
                         Get(cfg, "max_price_delta", Default_max_price_delta))
    IN  original_cost > 0 => (new_cost - original_cost) * 1000 <= max_delta * original_cost

\* |new_cost - original_cost| / original_cost <= max_delta, skipped when the
\* original cost is 0
PriceOk(new_basket, original_basket, cons, cfg) ==
    LET original_cost == BasketCostGet(original_basket)
        new_cost == BasketCostGet(new_basket)
        max_delta == Get(cons, "max_price_delta",
                         Get(cfg, "max_price_delta", Default_max_price_delta))
    IN  original_cost > 0 => Abs(new_cost - original_cost) * 1000 <= max_delta * original_cost

\* the dietary check whose vegan rule does not look at the dairy tag
DietOk_NoDairyRule(new_basket, cons) ==
    /\ (Get(cons, "vegetarian", FALSE) \/ Get(cons, "vegan", FALSE)) =>
          \A i \in DOMAIN new_basket : Get(new_basket[i], "vegetarian", TRUE)
    /\ \A i \in DOMAIN new_basket :
          Get(cons, "allergens", {}) \cap Get(new_basket[i], "allergens", {}) = {}

\* the dietary and allergen checks over every item; an item without a
\* vegetarian key counts as vegetarian, one without allergens as free of them
DietOk(new_basket, cons) ==
    /\ Get(cons, "vegetarian", FALSE) =>
          \A i \in DOMAIN new_basket : Get(new_basket[i], "vegetarian", TRUE)
    /\ Get(cons, "vegan", FALSE) =>
          \A i \in DOMAIN new_basket :
              /\ Get(new_basket[i], "vegetarian", TRUE)
              /\ "dairy" \notin Get(new_basket[i], "allergens", {})
    /\ \A i \in DOMAIN new_basket :
          Get(cons, "allergens", {}) \cap Get(new_basket[i], "allergens", {}) = {}

satisfies_constraints(new_basket, original_basket, cons, cfg) ==
    /\ PriceOk(new_basket, original_basket, cons, cfg)
    /\ DietOk(new_basket, cons)

RECURSIVE Flatten(_)
Flatten(ss) == IF ss = <<>> THEN <<>> ELSE Head(ss) \o Flatten(Tail(ss))

\* the mutant of Successors: a position without substitutes restarts from the
\* original basket
Successors_RestartOnNoCandidates(state, substitutes, original_basket, product_idx, cons, cfg) ==
    LET swapped == Seq1([i \in DOMAIN substitutes |->
                      apply_swap(state.basket, product_idx, substitutes[i])])
        Keep(nb) == satisfies_constraints(nb, original_basket, cons, cfg)
        kept == SelectSeq(swapped, Keep)
    IN  IF substitutes = <<>>
        THEN <<[basket |-> original_basket,
                score |-> compute_objective(original_basket, original_basket, cfg)]>>
        ELSE Seq1([i \in DOMAIN kept |->
                [basket |-> kept[i],
                 score |-> compute_objective(kept[i], original_basket, cfg)]])

\* what one beam state contributes to new_beam at position product_idx, given
\* the substitutes of the position's original product: its swapped baskets
\* that satisfy the constraints, or itself when there are no substitutes
Successors(state, substitutes, original_basket, product_idx, cons, cfg) ==
    LET swapped == Seq1([i \in DOMAIN substitutes |->
                      apply_swap(state.basket, product_idx, substitutes[i])])
        Keep(nb) == satisfies_constraints(nb, original_basket, cons, cfg)
        kept == SelectSeq(swapped, Keep)
    IN  IF substitutes = <<>> THEN <<state>>
        ELSE Seq1([i \in DOMAIN kept |->
                [basket |-> kept[i],
                 score |-> compute_objective(kept[i], original_basket, cfg)]])

\* the passes of "for sub in substitutes" in one iteration of the loop over
\* positions: each builds one candidate basket (_apply_swap) and checks it
\* (_satisfies_constraints); every beam state fetches the same substitutes
CandidatesTried(bm, product_id, cons) ==
    Len(bm) * Len(get_substitutes(product_id, cons))

\* the iteration that drops the old beam when no state produced a successor
BeamAfter_DropOnAllRejected(bm, original_basket, product_idx, cons, cfg) ==
    LET substitutes == get_substitutes(original_basket[product_idx].product_id, cons)
        new_beam == Flatten([i \in DOMAIN bm |->
                        Successors(bm[i], substitutes, original_basket, product_idx,
                                   cons, cfg)])
        Score(st) == st.score
    IN  SortedPrefix(new_beam, Score, beam_width(cfg))

\* the iteration that offers every position the substitutes of the product the
\* basket starts with
BeamAfter_FirstOrigin(bm, original_basket, product_idx, cons, cfg) ==
    LET substitutes == get_substitutes(original_basket[1].product_id, cons)
        new_beam == Flatten([i \in DOMAIN bm |->
                        Successors(bm[i], substitutes, original_basket, product_idx,
                                   cons, cfg)])
        Score(st) == st.score
    IN  IF new_beam # <<>> THEN SortedPrefix(new_beam, Score, beam_width(cfg))
        ELSE bm

\* the iteration that cuts new_beam without sorting it
BeamAfter_Unsorted(bm, original_basket, product_idx, cons, cfg) ==
    LET substitutes == get_substitutes(original_basket[product_idx].product_id, cons)
        new_beam == Flatten([i \in DOMAIN bm |->
                        Successors(bm[i], substitutes, original_basket, product_idx,
                                   cons, cfg)])
        n == IF Len(new_beam) < beam_width(cfg) THEN Len(new_beam) ELSE beam_width(cfg)
    IN  IF new_beam # <<>> THEN SubSeq(new_beam, 1, n)
        ELSE bm

\* the iteration that sorts new_beam and does not cut it
BeamAfter_NoCut(bm, original_basket, product_idx, cons, cfg) ==
    LET substitutes == get_substitutes(original_basket[product_idx].product_id, cons)
        new_beam == Flatten([i \in DOMAIN bm |->
                        Successors(bm[i], substitutes, original_basket, product_idx,
                                   cons, cfg)])
        Score(st) == st.score
    IN  IF new_beam # <<>> THEN SortByKey(new_beam, Score)
        ELSE bm

\* one iteration of the loop over positions: the new beam, sorted by score and
\* cut to beam_width; the old beam when no state produced a successor.  The
\* code fetches the substitutes of original_basket[product_idx] once per beam
\* state; every fetch returns the same list.
BeamAfter(bm, original_basket, product_idx, cons, cfg) ==
    LET substitutes == get_substitutes(original_basket[product_idx].product_id, cons)
        new_beam == Flatten([i \in DOMAIN bm |->
                        Successors(bm[i], substitutes, original_basket, product_idx,
                                   cons, cfg)])
        Score(st) == st.score
    IN  IF new_beam # <<>> THEN SortedPrefix(new_beam, Score, beam_width(cfg))
        ELSE bm

\* the metrics of optimize_basket's return value; a ratio is the pair num/den
Metrics(original_basket, optimized) ==
    LET original_emissions == BasketEmissions(original_basket)
        optimized_emissions == BasketEmissions(optimized)
        original_cost == BasketCost(original_basket)
        optimized_cost == BasketCost(optimized)
        cog == original_emissions - optimized_emissions
    IN  [optimized_basket |-> optimized,
         emissions |-> optimized_emissions,
         cost |-> optimized_cost,
         cog |-> cog,
         cog_ratio |-> IF original_emissions > 0
                       THEN [num |-> cog, den |-> original_emissions]
                       ELSE [num |-> 0, den |-> 1],
         mac_basket |-> IF cog > 0
                        THEN [inf |-> FALSE, num |-> optimized_cost - original_cost,
                              den |-> cog]
                        ELSE [inf |-> TRUE, num |-> 0, den |-> 1]]

\* the whole search: the beam after every position of the basket, in order
RECURSIVE BeamLoop(_, _, _, _, _)
BeamLoop(bm, original_basket, product_idx, cons, cfg) ==
    IF product_idx > Len(original_basket) THEN bm
    ELSE BeamLoop(BeamAfter(bm, original_basket, product_idx, cons, cfg),
                  original_basket, product_idx + 1, cons, cfg)

\* optimize_basket from call to return
optimize_basket(b, cons, cfg) ==
    LET final == BeamLoop(<<[basket |-> b, score |-> compute_objective(b, b, cfg)]>>,
                          b, 1, cons, cfg)
    IN  Metrics(b, IF final = <<>> THEN b ELSE final[1].basket)

(***************************************************************************)
(* EmissionsEngine                                                         *)
(***************************************************************************)
\* the LCA table in row order: category, emissions_mean (tenths),
\* emissions_std (tenths)
lca_rows ==
    <<<<"Beef (beef herd)", 995, 330>>, <<"Beef (dairy herd)", 333, 120>>,
      <<"Lamb & Mutton", 392, 150>>, <<"Pork", 121, 40>>,
      <<"Poultry Meat", 99, 30>>, <<"Fish (farmed)", 136, 80>>,
      <<"Prawns (farmed)", 269, 150>>, <<"Milk", 32, 15>>,
      <<"Cheese", 239, 80>>, <<"Eggs", 45, 15>>, <<"Tofu", 30, 10>>,
      <<"Peas", 9, 3>>, <<"Nuts", 3, 2>>, <<"Groundnuts", 32, 10>>,
      <<"Other Pulses", 16, 5>>, <<"Wheat & Rye (Bread)", 16, 5>>,
      <<"Maize (Meal)", 17, 6>>, <<"Rice", 45, 15>>, <<"Oatmeal", 25, 8>>,
      <<"Barley (Beer)", 7, 3>>, <<"Tomatoes", 21, 10>>,
      <<"Onions & Leeks", 5, 2>>, <<"Root Vegetables", 4, 2>>,
      <<"Brassicas", 5, 2>>, <<"Other Vegetables", 5, 2>>,
      <<"Apples", 4, 2>>, <<"Bananas", 9, 3>>, <<"Berries & Grapes", 15, 5>>,
      <<"Citrus Fruit", 4, 2>>, <<"Other Fruit", 7, 3>>,
      <<"Soy milk", 9, 3>>, <<"Oat milk", 9, 3>>, <<"Rice milk", 12, 4>>,
      <<"Almond milk", 7, 3>>, <<"Olive Oil", 54, 20>>,
      <<"Palm Oil", 76, 30>>, <<"Sunflower Oil", 35, 15>>,
      <<"Rapeseed Oil", 38, 15>>, <<"Sugar (cane)", 32, 10>>,
      <<"Sugar (beet)", 18, 6>>, <<"Coffee", 285, 100>>,
      <<"Dark Chocolate", 467, 150>>, <<"Wine", 18, 6>>>>

\* the categories in the order the repository holds them
footprint_keys == [i \in DOMAIN lca_rows |-> lca_rows[i][1]]

\* one ProductFootprint per category; the variance is emissions_std ** 2, in
\* hundredths
loaded_footprint_db ==
    [k \in Range(footprint_keys) |->
        LET row == lca_rows[CHOOSE i \in DOMAIN lca_rows : lca_rows[i][1] = k]
        IN  [product_id |-> k, emissions_mean |-> row[2],
             emissions_variance |-> row[3] * row[3], category |-> k,
             source |-> "Poore & Nemecek 2018"]]

\* the mutant of get_product_footprint: no lookup by key
get_product_footprint_NoDirectLookup(product_id) ==
    LET PartOfId(c) == Contains(Lower(product_id), Lower(c))
        hits == SelectSeq(footprint_keys, PartOfId)
    IN  IF hits # <<>> THEN footprint_db[hits[1]]
        ELSE [product_id |-> product_id, emissions_mean |-> 50,
              emissions_variance |-> 200, category |-> "Unknown",
              source |-> "Default"]

\* the repository entry keyed by the id, else the first category that is a
\* case-insensitive substring of the id, else the default footprint
get_product_footprint(product_id) ==
    LET PartOfId(c) == Contains(Lower(product_id), Lower(c))
        hits == SelectSeq(footprint_keys, PartOfId)
    IN  IF product_id \in DOMAIN footprint_db THEN footprint_db[product_id]
        ELSE IF hits # <<>> THEN footprint_db[hits[1]]
        ELSE [product_id |-> product_id, emissions_mean |-> 50,
              emissions_variance |-> 200, category |-> "Unknown",
              source |-> "Default"]

\* an exception leaving a function
Raised(kind) == [raised |-> kind]

IsRaised(r) == "raised" \in DOMAIN r

\* the mutant of EmissionsEntry: the variance scaled by the quantity, not by
\* its square
EmissionsEntry_LinearVariance(item, footprint) ==
    [product_id |-> item.product_id,
     emissions |-> footprint.emissions_mean * item.quantity,
     variance |-> footprint.emissions_variance * item.quantity]

\* one entry of product_emissions: the footprint scaled by the quantity
EmissionsEntry(item, footprint) ==
    [product_id |-> item.product_id,
     emissions |-> footprint.emissions_mean * item.quantity,
     variance |-> footprint.emissions_variance * item.quantity * item.quantity]

\* racs = total_emissions + 1.96 * sqrt(total_variance), in ten-thousandths,
\* the root taken to hundredths
EmissionsResult(product_emissions, total_emissions, total_variance) ==
    [emissions |-> total_emissions,
     variance |-> total_variance,
     racs |-> 1000 * total_emissions + 196 * ISqrt(100 * total_variance),
     product_emissions |-> product_emissions]

EmissionsTotals(product_emissions) ==
    EmissionsResult(product_emissions,
        SumSeq([i \in DOMAIN product_emissions |-> product_emissions[i].emissions]),
        SumSeq([i \in DOMAIN product_emissions |-> product_emissions[i].variance]))

\* the totals over the items' footprints.  item["product_id"] and
\* item["quantity"] raise KeyError when the key is absent.
calculate_basket_emissions(b) ==
    IF \E i \in DOMAIN b : {"product_id", "quantity"} \ DOMAIN b[i] # {}
    THEN Raised("KeyError")
    ELSE EmissionsTotals(Seq1([i \in DOMAIN b |->
             EmissionsEntry(b[i], get_product_footprint(b[i].product_id))]))

(***************************************************************************)
(* AcceptanceModel                                                         *)
(***************************************************************************)
\* self.model after _load_model: the unpickled classifier when the model file
\* exists and loads, else an unfitted LogisticRegression or
\* GradientBoostingClassifier by acceptance_model_type, else None
load_model(cfg, file) ==
    LET model_type == Get(cfg, "acceptance_model_type", "logistic")
    IN  IF file = "trained" THEN "trained"
        ELSE IF model_type = "logistic" THEN "untrained_logistic"
        ELSE IF model_type = "gbm" THEN "untrained_gbm"
        ELSE "None"

\* the mutant of heuristic_acceptance: the bonus from a reduction of 5.0 on
heuristic_acceptance_BonusFromFive(swap, message_type) ==
    LET base == IF message_type = "numeric" THEN 1700 ELSE 3600
        priced == IF Get(swap, "price_change", 0) > 0 THEN (base * 8) \div 10 ELSE base
        rate == IF Get(swap, "emissions_reduction", 0) >= 50
                THEN (priced * 12) \div 10 ELSE priced
    IN  IF rate < 0 THEN 0 ELSE IF rate > 10000 THEN 10000 ELSE rate

\* base rate by message type, times 0.8 for a price increase, times 1.2 for an
\* emissions reduction above 5.0, clipped to [0, 1]
heuristic_acceptance(swap, message_type) ==
    LET base == IF message_type = "numeric" THEN 1700 ELSE 3600
        priced == IF Get(swap, "price_change", 0) > 0 THEN (base * 8) \div 10 ELSE base
        rate == IF Get(swap, "emissions_reduction", 0) > 50
                THEN (priced * 12) \div 10 ELSE priced
    IN  IF rate < 0 THEN 0 ELSE IF rate > 10000 THEN 10000 ELSE rate

\* what a fitted classifier's predict_proba may answer
TrainedProbs == {0, 2500, 10000}

\* predict_acceptance: the heuristic when self.model is None; else
\* self.model.predict_proba, which on an unfitted estimator raises
\* NotFittedError and on the loaded one answers trained_prob
predict_acceptance(model, swap, message_type, trained_prob) ==
    IF model = "None" THEN [prob |-> heuristic_acceptance(swap, message_type)]
    ELSE IF model = "trained" THEN [prob |-> trained_prob]
    ELSE Raised("NotFittedError")

\* simulate_swaps: every swap with its acceptance_prob, BAE = sum of
\* acceptance_prob * emissions_reduction, the mean acceptance as num/den
simulate_swaps(model, swaps, message_type, trained_probs) ==
    LET pred == Seq1([i \in DOMAIN swaps |->
                    predict_acceptance(model, swaps[i], message_type, trained_probs[i])])
        enriched_swaps == Seq1([i \in DOMAIN swaps |->
                              [acceptance_prob |-> pred[i].prob] @@ swaps[i]])
        probs == Seq1([i \in DOMAIN swaps |-> pred[i].prob])
    IN  IF \E i \in DOMAIN swaps : IsRaised(pred[i]) THEN Raised("NotFittedError")
        ELSE [swaps |-> enriched_swaps,
              bae |-> SumSeq([i \in DOMAIN swaps |->
                         probs[i] * Get(swaps[i], "emissions_reduction", 0)]),
              avg_acceptance |-> IF swaps # <<>>
                                 THEN [num |-> SumSeq(probs), den |-> Len(swaps)]
                                 ELSE [num |-> 0, den |-> 1]]

(***************************************************************************)
(* MCPOrchestrator._extract_swaps                                          *)
(***************************************************************************)
\* the swaps whose price_change is the difference of the unit prices
extract_swaps_UnitPrice(original, optimized) ==
    LET n == IF Len(original) < Len(optimized) THEN Len(original) ELSE Len(optimized)
        Differs(i) == original[i].product_id # optimized[i].product_id
        changed == SelectSeq([i \in 1..n |-> i], Differs)
    IN  [j \in DOMAIN changed |->
            LET orig_item == original[changed[j]]
                opt_item == optimized[changed[j]]
            IN  [original_product_id |-> orig_item.product_id,
                 substitute_product_id |-> opt_item.product_id,
                 emissions_reduction |-> Get(orig_item, "emissions", 0)
                                           - Get(opt_item, "emissions", 0),
                 price_change |-> opt_item.price - orig_item.price]]

\* one swap record per position whose product id differs, in position order
extract_swaps(original, optimized) ==
    LET n == IF Len(original) < Len(optimized) THEN Len(original) ELSE Len(optimized)
        Differs(i) == original[i].product_id # optimized[i].product_id
        changed == SelectSeq([i \in 1..n |-> i], Differs)
    IN  [j \in DOMAIN changed |->
            LET orig_item == original[changed[j]]
                opt_item == optimized[changed[j]]
            IN  [original_product_id |-> orig_item.product_id,
                 substitute_product_id |-> opt_item.product_id,
                 emissions_reduction |-> Get(orig_item, "emissions", 0)
                                           - Get(opt_item, "emissions", 0),
                 price_change |-> (opt_item.price - orig_item.price) * orig_item.quantity]]

(***************************************************************************)
(* CarbonAwareCheckout                                                     *)
(***************************************************************************)
\* every item with the footprint's emissions, variance and category written
\* over its own, and a health score when it has none
enrich_basket_with_emissions(b) ==
    Seq1([i \in DOMAIN b |->
        LET item == b[i]
            product_id == Get(item, "product_id", "")
            footprint == get_product_footprint(product_id)
            enriched_item ==
                [emissions |-> footprint.emissions_mean,
                 emissions_variance |-> footprint.emissions_variance,
                 category |-> footprint.category] @@ item
        IN  enriched_item @@
              [health_score |-> get_health_score(product_id, enriched_item.category)]])

(***************************************************************************)
(* Inputs                                                                  *)
(***************************************************************************)
\* the largest max_results tried besides the optimizer's 10
MaxResults == 2

\* a product id the catalog does not know
UnknownIds == {"apple_001"}

\* the dicts with key k absent or bound to one of vals
OptKey(k, vals) == {EmptyDict} \cup {k :> v : v \in vals}

\* constraint dicts given to find_substitutes
FsConstraintSets ==
    {a @@ b @@ c @@ d :
        a \in OptKey("vegetarian", {TRUE}),
        b \in OptKey("vegan", {TRUE}),
        c \in OptKey("allergens", {{"soy"}, {"dairy", "fish"}}),
        d \in OptKey("max_price", {0, 500})}

\* the longest basket
MaxBasket == 2

\* the quantities of an item
Quantities == {1, 2}

\* the products a basket is drawn from
BasketIds == {"beef_001", "chicken_001", "tofu_001", "milk_001"} \cup UnknownIds

\* the products offered free of charge
FreeIds == {"beef_001", "milk_001"}

\* what the caller knows of a product: the catalog's data, or its own data
\* for a product the catalog does not know
ShelfInfo(pid) ==
    IF pid \in ProductIds THEN synthetic_product_db[pid]
    ELSE [id |-> pid, category |-> "Fruit", emissions |-> 4, price |-> 299,
          vegetarian |-> TRUE, allergens |-> {}, health |-> 90]

\* a basket item as callers of optimize_basket build it
PlainItem(pid, q) ==
    [product_id |-> pid, quantity |-> q, price |-> ShelfInfo(pid).price,
     emissions |-> ShelfInfo(pid).emissions]

\* the same item with the dietary keys supplied by the caller
FlaggedItem(pid, q) ==
    PlainItem(pid, q) @@ [vegetarian |-> ShelfInfo(pid).vegetarian,
                          allergens |-> ShelfInfo(pid).allergens]

\* an item given away: its price is 0
FreeItem(pid) == [PlainItem(pid, 1) EXCEPT !.price = 0]

\* the products also bought two at a time, and those whose items carry the
\* dietary keys
DoubleIds == {"beef_001", "tofu_001"}

FlaggedIds == {"beef_001", "tofu_001", "milk_001"}

PlainItems ==
    {PlainItem(pid, 1) : pid \in BasketIds}
      \cup {PlainItem(pid, q) : pid \in DoubleIds, q \in Quantities}

Baskets ==
    UNION {[1..n -> PlainItems] : n \in 0..MaxBasket}
      \cup UNION {[1..n -> {FlaggedItem(pid, 1) : pid \in FlaggedIds}] : n \in 1..MaxBasket}
      \cup UNION {[1..n -> {FreeItem(pid) : pid \in FreeIds}] : n \in 1..MaxBasket}

\* constraint dicts given to optimize_basket
OptConstraintSets ==
    {a @@ c @@ d :
        a \in OptKey("vegetarian", {TRUE}) \cup OptKey("vegan", {TRUE}),
        c \in OptKey("allergens", {{"soy"}}),
        d \in OptKey("max_price_delta", {50, 600})}

\* optimizer configurations; a beam width is a positive number of states
Configs == {EmptyDict, "beam_width" :> 1, "max_price_delta" :> 250}

\* the calls of optimize_basket: every constraint dict under the default
\* configuration, the other configurations with and without a wide price delta
OptimizeCall(c, cfg) == cfg = EmptyDict \/ c \in OptKey("max_price_delta", {600})

(***************************************************************************)
(* Inputs of predict_acceptance and analyze_basket                         *)
(***************************************************************************)
\* whether models/acceptance_model.pkl is absent, unreadable, or holds a
\* fitted classifier
ModelFiles == {"missing", "corrupt", "trained"}

AccConfigs ==
    OptKey("acceptance_model_type", {"logistic", "gbm", "heuristic"})

\* swaps given to predict_acceptance
AccSwaps ==
    {a @@ b : a \in OptKey("price_change", {-100, 0, 150}),
              b \in OptKey("emissions_reduction", {-49, 50, 51, 200})}

MessageTypes == {"numeric", "conversational", "default"}

\* the longest basket given to analyze_basket
MaxCheckoutBasket == 2

CheckoutIds == {"beef_001", "tofu_001", "milk_001"} \cup UnknownIds

\* an item as the caller of analyze_basket gives it, and one without quantity
RawItem(pid, q) == [product_id |-> pid, quantity |-> q, price |-> ShelfInfo(pid).price]

CheckoutBaskets ==
    UNION {[1..n -> {RawItem(pid, q) : pid \in CheckoutIds, q \in Quantities}]
              : n \in 0..MaxCheckoutBasket}
      \cup {<<[product_id |-> "tofu_001", price |-> ShelfInfo("tofu_001").price]>>}

UserContexts == {EmptyDict, "vegetarian" :> TRUE, "max_price_delta" :> 600}

CheckoutConfigs == OptKey("acceptance_model_type", {"heuristic"})

(***************************************************************************)
(* State                                                                   *)
(***************************************************************************)
VARIABLES
    fs_pc,          \* find_substitutes: "ready" | "returned" | "idle"
    fs_product_id,  \* its product_id argument
    fs_constraints, \* its constraints argument
    fs_max_results, \* its max_results argument
    fs_ranked,      \* candidates_with_scores after the sort
    fs_result,      \* the list it returns
    opt_pc,         \* optimize_basket: "ready" | "search" | "done" | "idle"
    basket,         \* its basket argument (the original basket)
    constraints,    \* its constraints argument
    config,         \* the config dict the components are built with
    beam,           \* the beam: a list of [basket, score]
    product_idx,    \* the position the loop is at (1-based)
    result,         \* the dict it returns
    acc_pc,         \* AcceptanceModel: "new" | "loaded" | "done" | "idle"
    model_file,     \* the state of the model file
    model,          \* self.model
    acc_swap,       \* predict_acceptance's swap argument
    message_type,   \* its message_type argument
    acc_result,     \* what it returns or raises
    ab_pc,          \* analyze_basket: "ready" | "enriched" | "scored" |
                    \*   "optimized" | "simulated" | "explained" | "logged" |
                    \*   "returned" | "raised" | "idle"
    ab_basket,      \* its basket argument
    user_context,   \* its user_context argument
    enriched_basket,
    emissions_data,
    optimization_result,
    swap_simulation,
    explanation,
    audit_log,      \* the orchestrator's audit_log
    checkout_result \* the CheckoutResult, or the exception raised

\* one call of a function of the metrics, the emissions engine or the
\* acceptance model
VARIABLES
    fn_pc,          \* "ready" | "returned" | "idle"
    fn_args,        \* the function called (fn) and its arguments
    fn_result,      \* what it returns or raises
    fn_log          \* the calls that returned before this one, with their results

fn_vars == <<fn_pc, fn_args, fn_result, fn_log>>

\* the analyze_basket calls in progress on one CarbonAwareCheckout: for every
\* caller the position and the local variables of its call
VARIABLE calls

call_vars == <<calls>>

CallsIdle == calls = <<>>

fs_vars == <<fs_pc, fs_product_id, fs_constraints, fs_max_results, fs_ranked, fs_result>>

\* the work of optimize_basket so far: the candidate baskets it has built and
\* checked, and the positions its loop has gone through, in order
VARIABLES evaluated, visited

opt_vars == <<opt_pc, basket, constraints, beam, product_idx, result, evaluated, visited>>

acc_vars == <<acc_pc, model, acc_swap, message_type, acc_result>>

ab_vars == <<ab_pc, ab_basket, user_context, enriched_basket, emissions_data,
             optimization_result, swap_simulation, explanation, audit_log,
             checkout_result>>

\* the environment: the config, the model file and the process's set order
env_vars == <<config, model_file, set_order>>

vars == <<fs_vars, opt_vars, acc_vars, ab_vars, env_vars, engine_vars, fn_vars, call_vars>>

\* the engines as constructed
EnginesBuilt ==
    /\ product_db = synthetic_product_db
    /\ category_index = built_category_index
    /\ embeddings = built_embeddings
    /\ footprint_db = loaded_footprint_db

\* the engines with the product database loaded from the file
EnginesLoaded ==
    /\ product_db = stored_product_db
    /\ category_index = stored_category_index
    /\ embeddings = stored_embeddings
    /\ footprint_db = loaded_footprint_db

OptIdle ==
    /\ opt_pc = "idle" /\ basket = <<>> /\ constraints = EmptyDict
    /\ beam = <<>> /\ product_idx = 0 /\ result = EmptyDict
    /\ evaluated = 0 /\ visited = <<>>

FsIdle ==
    /\ fs_pc = "idle" /\ fs_product_id = "" /\ fs_constraints = EmptyDict
    /\ fs_max_results = 0 /\ fs_ranked = <<>> /\ fs_result = <<>>

AccIdle ==
    /\ acc_pc = "idle" /\ model = "None" /\ acc_swap = EmptyDict
    /\ message_type = "conversational" /\ acc_result = EmptyDict

FnIdle ==
    /\ fn_pc = "idle" /\ fn_args = EmptyDict /\ fn_result = EmptyDict
    /\ fn_log = <<>>

AbIdle ==
    /\ ab_pc = "idle" /\ ab_basket = <<>> /\ user_context = EmptyDict
    /\ enriched_basket = <<>> /\ emissions_data = EmptyDict
    /\ optimization_result = EmptyDict /\ swap_simulation = EmptyDict
    /\ explanation = EmptyDict /\ audit_log = <<>> /\ checkout_result = EmptyDict

(***************************************************************************)
(* SubstituteEngine.find_substitutes as an operation                       *)
(***************************************************************************)
InitSub ==
    /\ fs_pc = "ready"
    /\ fs_product_id \in ProductIds \cup UnknownIds
    /\ fs_constraints \in FsConstraintSets
    /\ fs_max_results \in (1..MaxResults) \cup {OptimizerMaxResults}
    /\ fs_ranked = <<>>
    /\ fs_result = <<>>
    /\ config = EmptyDict
    /\ model_file = "missing"
    /\ set_order \in SetOrders
    /\ OptIdle /\ AccIdle /\ AbIdle /\ FnIdle /\ CallsIdle
    /\ (EnginesBuilt \/ EnginesLoaded)

FindSubstitutes ==
    /\ fs_pc = "ready"
    /\ fs_pc' = "returned"
    /\ fs_ranked' =
          IF fs_product_id \notin DOMAIN product_db THEN <<>>
          ELSE RankCandidates(product_db[fs_product_id],
                 ScoredCandidates(fs_product_id,
                   filter_by_constraints(
                     get_candidates(product_db[fs_product_id], fs_constraints),
                     fs_constraints)))
    /\ fs_result' = find_substitutes(fs_product_id, fs_constraints, fs_max_results)
    /\ UNCHANGED <<fs_product_id, fs_constraints, fs_max_results>>
    /\ UNCHANGED <<opt_vars, acc_vars, ab_vars, env_vars, engine_vars, fn_vars, call_vars>>

NextSub == FindSubstitutes

SpecSub == InitSub /\ [][NextSub]_vars

(***************************************************************************)
(* BasketOptimizer.optimize_basket as a process                            *)
(***************************************************************************)
Init ==
    /\ opt_pc = "ready"
    /\ basket \in Baskets
    /\ constraints \in OptConstraintSets
    /\ config \in Configs
    /\ OptimizeCall(constraints, config)
    /\ beam = <<>>
    /\ product_idx = 0
    /\ result = EmptyDict
    /\ evaluated = 0
    /\ visited = <<>>
    /\ model_file = "missing"
    /\ SyntheticProcess
    /\ FsIdle /\ AccIdle /\ AbIdle /\ FnIdle /\ CallsIdle
    /\ EnginesBuilt

\* beam = [{"basket": basket, "score": J(basket, basket)}]
OptimizeBegin ==
    /\ opt_pc = "ready"
    /\ beam' = <<[basket |-> basket, score |-> compute_objective(basket, basket, config)]>>
    /\ product_idx' = 1
    /\ opt_pc' = "search"
    /\ UNCHANGED <<basket, constraints, result, evaluated, visited>>
    /\ UNCHANGED <<fs_vars, acc_vars, ab_vars, env_vars, engine_vars, fn_vars, call_vars>>

\* one iteration of "for product_idx, item in enumerate(basket)"
BeamStep ==
    /\ opt_pc = "search"
    /\ product_idx <= Len(basket)
    /\ beam' = BeamAfter(beam, basket, product_idx, constraints, config)
    /\ evaluated' = evaluated
          + CandidatesTried(beam, basket[product_idx].product_id, constraints)
    /\ visited' = Append(visited, product_idx)
    /\ product_idx' = product_idx + 1
    /\ UNCHANGED <<opt_pc, basket, constraints, result>>
    /\ UNCHANGED <<fs_vars, acc_vars, ab_vars, env_vars, engine_vars, fn_vars, call_vars>>

\* after the loop: the best basket (the original when the beam is empty) and
\* its metrics
OptimizeReturn ==
    /\ opt_pc = "search"
    /\ product_idx > Len(basket)
    /\ result' = Metrics(basket, IF beam = <<>> THEN basket ELSE beam[1].basket)
    /\ opt_pc' = "done"
    /\ UNCHANGED <<basket, constraints, beam, product_idx, evaluated, visited>>
    /\ UNCHANGED <<fs_vars, acc_vars, ab_vars, env_vars, engine_vars, fn_vars, call_vars>>

Next == OptimizeBegin \/ BeamStep \/ OptimizeReturn

Spec == Init /\ [][Next]_vars

(***************************************************************************)
(* AcceptanceModel: construction and predict_acceptance                    *)
(***************************************************************************)
InitAcc ==
    /\ acc_pc = "new"
    /\ model_file \in ModelFiles
    /\ config \in AccConfigs
    /\ model = "None"
    /\ acc_swap \in AccSwaps
    /\ message_type \in MessageTypes
    /\ acc_result = EmptyDict
    /\ SyntheticProcess
    /\ FsIdle /\ OptIdle /\ AbIdle /\ FnIdle /\ CallsIdle
    /\ EnginesBuilt

\* __init__: self.model = None, then _load_model
LoadModel ==
    /\ acc_pc = "new"
    /\ model' = load_model(config, model_file)
    /\ acc_pc' = "loaded"
    /\ UNCHANGED <<acc_swap, message_type, acc_result>>
    /\ UNCHANGED <<fs_vars, opt_vars, ab_vars, env_vars, engine_vars, fn_vars, call_vars>>

PredictAcceptance ==
    /\ acc_pc = "loaded"
    /\ \E p \in TrainedProbs :
          acc_result' = predict_acceptance(model, acc_swap, message_type, p)
    /\ acc_pc' = "done"
    /\ UNCHANGED <<model, acc_swap, message_type>>
    /\ UNCHANGED <<fs_vars, opt_vars, ab_vars, env_vars, engine_vars, fn_vars, call_vars>>

NextAcc == LoadModel \/ PredictAcceptance

SpecAcc == InitAcc /\ [][NextAcc]_vars

(***************************************************************************)
(* CarbonAwareCheckout.analyze_basket as a process                         *)
(***************************************************************************)
InitCheckout ==
    /\ ab_pc = "ready"
    /\ ab_basket \in CheckoutBaskets
    /\ user_context \in UserContexts
    /\ config \in CheckoutConfigs
    /\ model_file \in {"missing", "trained"}
    /\ enriched_basket = <<>>
    /\ emissions_data = EmptyDict
    /\ optimization_result = EmptyDict
    /\ swap_simulation = EmptyDict
    /\ explanation = EmptyDict
    /\ audit_log = <<>>
    /\ checkout_result = EmptyDict
    /\ SyntheticProcess
    /\ FsIdle /\ OptIdle /\ AccIdle /\ FnIdle /\ CallsIdle
    /\ EnginesBuilt

\* the entry _log_tool_call appends after a tool has returned
ToolCallEntry(tool_name) == [tool |-> tool_name]

\* enriched_basket = self._enrich_basket_with_emissions(basket)
EnrichBasket ==
    /\ ab_pc = "ready"
    /\ enriched_basket' = enrich_basket_with_emissions(ab_basket)
    /\ ab_pc' = "enriched"
    /\ UNCHANGED <<ab_basket, user_context, emissions_data, optimization_result,
                   swap_simulation, explanation, audit_log, checkout_result>>
    /\ UNCHANGED <<fs_vars, opt_vars, acc_vars, env_vars, engine_vars, fn_vars, call_vars>>

\* call_tool("calculate_basket_emissions"): the tool, then the log entry; an
\* exception of the tool leaves analyze_basket
ToolCalculateEmissions ==
    /\ ab_pc = "enriched"
    /\ \E out \in {calculate_basket_emissions(enriched_basket)} :
           IF IsRaised(out)
           THEN /\ ab_pc' = "raised"
                /\ checkout_result' = out
                /\ UNCHANGED <<emissions_data, audit_log>>
           ELSE /\ ab_pc' = "scored"
                /\ emissions_data' = out
                /\ audit_log' = Append(audit_log, ToolCallEntry("calculate_basket_emissions"))
                /\ UNCHANGED checkout_result
    /\ UNCHANGED <<ab_basket, user_context, enriched_basket, optimization_result,
                   swap_simulation, explanation>>
    /\ UNCHANGED <<fs_vars, opt_vars, acc_vars, env_vars, engine_vars, fn_vars, call_vars>>

\* call_tool("optimize_basket") with constraints = user_context or {}
ToolOptimizeBasket ==
    /\ ab_pc = "scored"
    /\ optimization_result' = optimize_basket(enriched_basket, user_context, config)
    /\ audit_log' = Append(audit_log, ToolCallEntry("optimize_basket"))
    /\ ab_pc' = "optimized"
    /\ UNCHANGED <<ab_basket, user_context, enriched_basket, emissions_data,
                   swap_simulation, explanation, checkout_result>>
    /\ UNCHANGED <<fs_vars, opt_vars, acc_vars, env_vars, engine_vars, fn_vars, call_vars>>

\* call_tool("simulate_swaps"): a new AcceptanceModel, the swaps between the
\* enriched and the optimized basket, and simulate_swaps with the default
\* message type
ToolSimulateSwaps ==
    /\ ab_pc = "optimized"
    /\ \E swaps \in {extract_swaps(enriched_basket,
                                     optimization_result.optimized_basket)} :
           \E trained_probs \in [DOMAIN swaps -> TrainedProbs] :
             \E out \in {simulate_swaps(load_model(config, model_file), swaps,
                                      "conversational", trained_probs)} :
                 IF IsRaised(out)
                 THEN /\ ab_pc' = "raised"
                      /\ checkout_result' = out
                      /\ UNCHANGED <<swap_simulation, audit_log>>
                 ELSE /\ ab_pc' = "simulated"
                      /\ swap_simulation' = out
                      /\ audit_log' = Append(audit_log, ToolCallEntry("simulate_swaps"))
                      /\ UNCHANGED checkout_result
    /\ UNCHANGED <<ab_basket, user_context, enriched_basket, emissions_data,
                   optimization_result, explanation>>
    /\ UNCHANGED <<fs_vars, opt_vars, acc_vars, env_vars, engine_vars, fn_vars, call_vars>>

\* self.explanation_generator.generate(...): without an LLM client, the
\* fallback text over emissions, cog and cog_ratio
GenerateExplanation ==
    /\ ab_pc = "simulated"
    /\ explanation' = [emissions |-> emissions_data.emissions,
                       cog |-> optimization_result.cog,
                       cog_ratio |-> optimization_result.cog_ratio]
    /\ ab_pc' = "explained"
    /\ UNCHANGED <<ab_basket, user_context, enriched_basket, emissions_data,
                   optimization_result, swap_simulation, audit_log, checkout_result>>
    /\ UNCHANGED <<fs_vars, opt_vars, acc_vars, env_vars, engine_vars, fn_vars, call_vars>>

\* call_tool("audit_log", {..., "basket_id": enriched_basket[0].get(...)}):
\* enriched_basket[0] raises IndexError on an empty basket; else the event and
\* then the tool-call entry are appended
ToolAuditLog ==
    /\ ab_pc = "explained"
    /\ IF enriched_basket = <<>>
       THEN /\ ab_pc' = "raised"
            /\ checkout_result' = Raised("IndexError")
            /\ UNCHANGED audit_log
       ELSE /\ ab_pc' = "logged"
            /\ audit_log' = audit_log \o
                  <<[event_type |-> "basket_analysis",
                     basket_id |-> Get(enriched_basket[1], "basket_id", "unknown")],
                    ToolCallEntry("audit_log")>>
            /\ UNCHANGED checkout_result
    /\ UNCHANGED <<ab_basket, user_context, enriched_basket, emissions_data,
                   optimization_result, swap_simulation, explanation>>
    /\ UNCHANGED <<fs_vars, opt_vars, acc_vars, env_vars, engine_vars, fn_vars, call_vars>>

\* return CheckoutResult(...)
ReturnResult ==
    /\ ab_pc = "logged"
    /\ checkout_result' =
          [basket_id |-> Get(enriched_basket[1], "basket_id", "unknown"),
           emissions |-> emissions_data.emissions,
           emissions_optimized |-> optimization_result.emissions,
           cog |-> optimization_result.cog,
           cog_ratio |-> optimization_result.cog_ratio,
           bae |-> swap_simulation.bae,
           racs |-> emissions_data.racs,
           mac_basket |-> optimization_result.mac_basket,
           cost_original |-> BasketCost(enriched_basket),
           cost_optimized |-> optimization_result.cost,
           swaps |-> swap_simulation.swaps,
           explanation |-> explanation,
           acceptance_rate |-> swap_simulation.avg_acceptance]
    /\ ab_pc' = "returned"
    /\ UNCHANGED <<ab_basket, user_context, enriched_basket, emissions_data,
                   optimization_result, swap_simulation, explanation, audit_log>>
    /\ UNCHANGED <<fs_vars, opt_vars, acc_vars, env_vars, engine_vars, fn_vars, call_vars>>

NextCheckout ==
    \/ EnrichBasket
    \/ ToolCalculateEmissions
    \/ ToolOptimizeBasket
    \/ ToolSimulateSwaps
    \/ GenerateExplanation
    \/ ToolAuditLog
    \/ ReturnResult

SpecCheckout == InitCheckout /\ [][NextCheckout]_vars

(***************************************************************************)
(* analyze_basket calls interleaved on one CarbonAwareCheckout             *)
(***************************************************************************)
\* the threads that call analyze_basket on the shared object
Callers == {1, 2}

SharedBaskets ==
    { <<>>,
      <<RawItem("beef_001", 1)>>,
      <<RawItem("tofu_001", 2)>>,
      <<RawItem("milk_001", 1), RawItem("beef_001", 2)>> }

SharedContexts == {"max_price_delta" :> 600}

\* the entry _log_tool_call appends, with the thread it stems from
ToolCallRecord(caller, tool_name, tool_result) ==
    [tool |-> tool_name, caller |-> caller, result |-> tool_result]

\* the event _tool_audit_log appends, with the thread it stems from
AuditEvent(caller, enriched) ==
    [event_type |-> "basket_analysis", caller |-> caller,
     basket_id |-> Get(enriched[1], "basket_id", "unknown")]

\* an append that writes back the thread's own copy of the list
audit_log_append_OwnCopy(log, entry) ==
    LET Own(e) == e.caller = entry.caller IN Append(SelectSeq(log, Own), entry)

\* self.audit_log.append(entry): one atomic step on the shared list
audit_log_append(log, entry) == Append(log, entry)

\* the fallback text of ExplanationGenerator.generate
FallbackExplanation(emissions, optimization) ==
    [emissions |-> emissions.emissions, cog |-> optimization.cog,
     cog_ratio |-> optimization.cog_ratio]

\* CheckoutResult(...) as analyze_basket builds it
CheckoutResult(enriched, emissions, optimization, simulation, text) ==
    [basket_id |-> Get(enriched[1], "basket_id", "unknown"),
     emissions |-> emissions.emissions,
     emissions_optimized |-> optimization.emissions,
     cog |-> optimization.cog,
     cog_ratio |-> optimization.cog_ratio,
     bae |-> simulation.bae,
     racs |-> emissions.racs,
     mac_basket |-> optimization.mac_basket,
     cost_original |-> BasketCost(enriched),
     cost_optimized |-> optimization.cost,
     swaps |-> simulation.swaps,
     explanation |-> text,
     acceptance_rate |-> simulation.avg_acceptance]

\* analyze_basket run alone on a fresh CarbonAwareCheckout, from the values of
\* its steps: what it returns or raises, and the entries it leaves in the log
analyze_basket_alone(caller, enriched, emissions, optimization, simulation) ==
    LET first == ToolCallRecord(caller, "calculate_basket_emissions", emissions)
        second == ToolCallRecord(caller, "optimize_basket", optimization)
        third == ToolCallRecord(caller, "simulate_swaps", simulation)
    IN  IF IsRaised(emissions) THEN [result |-> emissions, log |-> <<>>]
        ELSE IF IsRaised(simulation)
        THEN [result |-> simulation, log |-> <<first, second>>]
        ELSE IF enriched = <<>>
        THEN [result |-> Raised("IndexError"), log |-> <<first, second, third>>]
        ELSE [result |-> CheckoutResult(enriched, emissions, optimization, simulation,
                             FallbackExplanation(emissions, optimization)),
              log |-> <<first, second, third, AuditEvent(caller, enriched),
                        ToolCallRecord(caller, "audit_log",
                            [status |-> "logged", event_id |-> 4])>>]

\* the locals of a call that has not started; alone holds, from the call's
\* first step on, what the call does when no other call runs on the object
NewCall(b, ctx) ==
    [pc |-> "ready", basket |-> b, user_context |-> ctx, enriched_basket |-> <<>>,
     emissions_data |-> EmptyDict, optimization_result |-> EmptyDict,
     swap_simulation |-> EmptyDict, explanation |-> EmptyDict,
     event_id |-> 0, result |-> EmptyDict, alone |-> EmptyDict]

InitShared ==
    /\ config \in CheckoutConfigs
    /\ model_file = "missing"
    /\ SyntheticProcess
    /\ FsIdle /\ OptIdle /\ AccIdle /\ AbIdle /\ FnIdle
    /\ EnginesBuilt
    /\ \E baskets \in [Callers -> SharedBaskets], ctx \in SharedContexts :
          /\ baskets[1] # baskets[2]
          /\ calls = [t \in Callers |-> NewCall(baskets[t], ctx)]

\* what a step of a call leaves alone: all but its locals and the log
SharedFrame ==
    /\ UNCHANGED <<ab_pc, ab_basket, user_context, enriched_basket, emissions_data,
                   optimization_result, swap_simulation, explanation,
                   checkout_result>>
    /\ UNCHANGED <<fs_vars, opt_vars, acc_vars, env_vars, engine_vars, fn_vars>>

\* enriched_basket = self._enrich_basket_with_emissions(basket); the step
\* also notes, in alone, the run of the call with no other call beside it
CallEnrich(t) ==
    /\ calls[t].pc = "ready"
    /\ \E enriched \in {enrich_basket_with_emissions(calls[t].basket)} :
        \E emissions \in {calculate_basket_emissions(enriched)} :
        \E optimization \in {optimize_basket(enriched, calls[t].user_context, config)} :
        \E swaps \in {extract_swaps(enriched, optimization.optimized_basket)} :
        \E simulation \in {simulate_swaps(load_model(config, model_file), swaps,
                                "conversational", [i \in DOMAIN swaps |-> 0])} :
          calls' = [calls EXCEPT ![t].pc = "enriched",
                                 ![t].enriched_basket = enriched,
                                 ![t].alone = analyze_basket_alone(t, enriched, emissions,
                                                  optimization, simulation)]
    /\ UNCHANGED audit_log
    /\ SharedFrame

\* call_tool("calculate_basket_emissions"): the tool works on an
\* EmissionsEngine of its own; the log entry is appended after it returned
CallCalculateEmissions(t) ==
    /\ calls[t].pc = "enriched"
    /\ \E out \in {calculate_basket_emissions(calls[t].enriched_basket)} :
           IF IsRaised(out)
           THEN /\ calls' = [calls EXCEPT ![t].pc = "raised", ![t].result = out]
                /\ UNCHANGED audit_log
           ELSE /\ calls' = [calls EXCEPT ![t].pc = "scored",
                                         ![t].emissions_data = out]
                /\ audit_log' = audit_log_append(audit_log,
                        ToolCallRecord(t, "calculate_basket_emissions", out))
    /\ SharedFrame

\* call_tool("optimize_basket"): a BasketOptimizer of its own
CallOptimizeBasket(t) ==
    /\ calls[t].pc = "scored"
    /\ \E out \in {optimize_basket(calls[t].enriched_basket,
                                    calls[t].user_context, config)} :
           /\ calls' = [calls EXCEPT ![t].pc = "optimized",
                                     ![t].optimization_result = out]
           /\ audit_log' = audit_log_append(audit_log,
                   ToolCallRecord(t, "optimize_basket", out))
    /\ SharedFrame

\* call_tool("simulate_swaps"): an AcceptanceModel of its own
CallSimulateSwaps(t) ==
    /\ calls[t].pc = "optimized"
    /\ \E swaps \in {extract_swaps(calls[t].enriched_basket,
                         calls[t].optimization_result.optimized_basket)} :
         \E out \in {simulate_swaps(load_model(config, model_file), swaps,
                         "conversational", [i \in DOMAIN swaps |-> 0])} :
           IF IsRaised(out)
           THEN /\ calls' = [calls EXCEPT ![t].pc = "raised", ![t].result = out]
                /\ UNCHANGED audit_log
           ELSE /\ calls' = [calls EXCEPT ![t].pc = "simulated",
                                         ![t].swap_simulation = out]
                /\ audit_log' = audit_log_append(audit_log,
                        ToolCallRecord(t, "simulate_swaps", out))
    /\ SharedFrame

CallGenerateExplanation(t) ==
    /\ calls[t].pc = "simulated"
    /\ calls' = [calls EXCEPT ![t].pc = "explained",
                              ![t].explanation =
                                  FallbackExplanation(calls[t].emissions_data,
                                                      calls[t].optimization_result)]
    /\ UNCHANGED audit_log
    /\ SharedFrame

\* call_tool("audit_log", ...), first part: enriched_basket[0] raises
\* IndexError on an empty basket; else _tool_audit_log appends the event
CallAuditEvent(t) ==
    /\ calls[t].pc = "explained"
    /\ IF calls[t].enriched_basket = <<>>
       THEN /\ calls' = [calls EXCEPT ![t].pc = "raised",
                                     ![t].result = Raised("IndexError")]
            /\ UNCHANGED audit_log
       ELSE /\ calls' = [calls EXCEPT ![t].pc = "event_appended"]
            /\ audit_log' = audit_log_append(audit_log,
                    AuditEvent(t, calls[t].enriched_basket))
    /\ SharedFrame

\* second part: "event_id": len(self.audit_log)
CallAuditEventId(t) ==
    /\ calls[t].pc = "event_appended"
    /\ calls' = [calls EXCEPT ![t].pc = "event_counted",
                              ![t].event_id = Len(audit_log)]
    /\ UNCHANGED audit_log
    /\ SharedFrame

\* third part: _log_tool_call appends the entry of the audit_log tool
CallAuditRecord(t) ==
    /\ calls[t].pc = "event_counted"
    /\ calls' = [calls EXCEPT ![t].pc = "logged"]
    /\ audit_log' = audit_log_append(audit_log,
            ToolCallRecord(t, "audit_log",
                [status |-> "logged", event_id |-> calls[t].event_id]))
    /\ SharedFrame

CallReturn(t) ==
    /\ calls[t].pc = "logged"
    /\ calls' = [calls EXCEPT ![t].pc = "returned",
                              ![t].result =
                                  CheckoutResult(calls[t].enriched_basket,
                                                 calls[t].emissions_data,
                                                 calls[t].optimization_result,
                                                 calls[t].swap_simulation,
                                                 calls[t].explanation)]
    /\ UNCHANGED audit_log
    /\ SharedFrame

NextShared ==
    \/ \E t \in Callers : CallEnrich(t)
    \/ \E t \in Callers : CallCalculateEmissions(t)
    \/ \E t \in Callers : CallOptimizeBasket(t)
    \/ \E t \in Callers : CallSimulateSwaps(t)
    \/ \E t \in Callers : CallGenerateExplanation(t)
    \/ \E t \in Callers : CallAuditEvent(t)
    \/ \E t \in Callers : CallAuditEventId(t)
    \/ \E t \in Callers : CallAuditRecord(t)
    \/ \E t \in Callers : CallReturn(t)

SpecShared == InitShared /\ [][NextShared]_vars

(***************************************************************************)
(* CarbonMetrics                                                           *)
(***************************************************************************)
\* float('inf'), in the representation of a ratio
Inf == [inf |-> TRUE, num |-> 0, den |-> 1]

\* the mutant of marginal_abatement_cost: infinite only below 0
marginal_abatement_cost_NegativeOnly(cost_original, cost_optimized, emissions_original, emissions_optimized) ==
    IF emissions_original - emissions_optimized < 0 THEN Inf
    ELSE [inf |-> FALSE, num |-> cost_optimized - cost_original,
          den |-> emissions_original - emissions_optimized]

\* the mutant of risk_adjusted_carbon_score: an unknown confidence level
\* takes the 0.90 value
risk_adjusted_carbon_score_UnknownAsNinety(emissions_mean, emissions_variance, confidence_level) ==
    LET z_alpha == IF confidence_level = 95 THEN 1960
                   ELSE IF confidence_level = 99 THEN 2576
                   ELSE 1645
    IN  10000 * emissions_mean + z_alpha * ISqrt(100 * emissions_variance)

\* emissions_mean + z_alpha * sqrt(emissions_variance), in 1/100000: the mean
\* in tenths, the variance in hundredths, the confidence level in hundredths,
\* z_alpha in thousandths, the root taken to hundredths
risk_adjusted_carbon_score(emissions_mean, emissions_variance, confidence_level) ==
    LET z_alpha == IF confidence_level = 90 THEN 1645
                   ELSE IF confidence_level = 95 THEN 1960
                   ELSE IF confidence_level = 99 THEN 2576
                   ELSE 1960
    IN  10000 * emissions_mean + z_alpha * ISqrt(100 * emissions_variance)

\* sum of swap["acceptance_prob"] * swap["emissions_reduction"]; a swap
\* without one of the keys raises KeyError
behavior_adjusted_emissions(swaps) ==
    IF \E i \in DOMAIN swaps :
          {"acceptance_prob", "emissions_reduction"} \ DOMAIN swaps[i] # {}
    THEN Raised("KeyError")
    ELSE SumSeq([i \in DOMAIN swaps |->
                    swaps[i].acceptance_prob * swaps[i].emissions_reduction])

\* (cost_optimized - cost_original) / emissions_reduction as the pair num/den,
\* float('inf') when the reduction is <= 0
marginal_abatement_cost(cost_original, cost_optimized, emissions_original, emissions_optimized) ==
    IF emissions_original - emissions_optimized <= 0 THEN Inf
    ELSE [inf |-> FALSE, num |-> cost_optimized - cost_original,
          den |-> emissions_original - emissions_optimized]

(***************************************************************************)
(* Single calls of the functions of the emissions engine, the metrics and  *)
(* the acceptance model                                                    *)
(***************************************************************************)
\* the items whose footprint is looked up: an id that is a repository key,
\* ids that contain a category in either case, ids that contain two
\* categories or none, and items that carry a name or no product_id
FootprintItems ==
    {[product_id |-> pid] :
        pid \in {"Tofu", "Soy milk", "tofu_001", "TOFU_001", "milk_001",
                 "Organic Soy milk", "apple_001", "beef_001", ""}}
      \cup {[product_id |-> "apple_001", name |-> "Apples"],
            [product_id |-> "tofu_001", name |-> "Tofu"],
            [name |-> "Tofu"]}

\* the calls get_product_footprint(item.get("product_id", ""))
FootprintCalls == {[fn |-> "get_product_footprint", item |-> i] : i \in FootprintItems}

\* the calls of marginal_abatement_cost: costs in cents, emissions in tenths
MacCalls ==
    {[fn |-> "marginal_abatement_cost", cost_original |-> co, cost_optimized |-> cn,
      emissions_original |-> eo, emissions_optimized |-> en] :
        co \in {0, 10000}, cn \in {0, 9000, 10000, 10190},
        eo \in {0, 500}, en \in {0, 421, 500, 600}}

\* the calls of optimize_basket on a BasketOptimizer({})
SmallBaskets ==
    UNION {[1..n -> {PlainItem(pid, 1) : pid \in {"chicken_001", "milk_001", "apple_001"}}
                     \cup {PlainItem("tofu_001", 2)}]
              : n \in 0..MaxBasket}

OptimizeCalls ==
    {[fn |-> "optimize_basket", basket |-> b, constraints |-> c] :
        b \in SmallBaskets, c \in OptKey("max_price_delta", {600})}

\* the calls of calculate_basket_emissions: items with product_id and
\* quantity, as its docstring asks
EmissionsItems ==
    {[product_id |-> pid, quantity |-> q] :
        pid \in {"Tofu", "milk_001", "apple_001"}, q \in {1, 2, 3}}

EmissionsCalls ==
    {[fn |-> "calculate_basket_emissions", basket |-> b] :
        b \in UNION {[1..n -> EmissionsItems] : n \in 0..MaxBasket}}

\* the longest list of swaps
MaxSwaps == 2

\* the swaps simulated: as _extract_swaps builds them, and one without keys
SimSwaps ==
    {[original_product_id |-> "milk_001", price_change |-> pc,
      emissions_reduction |-> er] : pc \in {-100, 50}, er \in {-49, 51, 200}}
      \cup {EmptyDict}

\* the calls of simulate_swaps
SimulateCalls ==
    {[fn |-> "simulate_swaps", swaps |-> sw, message_type |-> mt] :
        sw \in UNION {[1..n -> SimSwaps] : n \in 0..MaxSwaps},
        mt \in {"numeric", "conversational"}}

\* the variances and confidence levels RACS is computed for
RacsVariances == {0, 1, 200, 2500, 2501}

RacsCalls ==
    {[fn |-> "risk_adjusted_carbon_score", emissions_mean |-> m,
      emissions_variance |-> v] @@ c :
        m \in {0, 500}, v \in RacsVariances,
        c \in OptKey("confidence_level", {80, 90, 95, 99})}

FnCalls ==
    FootprintCalls \cup MacCalls \cup OptimizeCalls \cup EmissionsCalls
        \cup SimulateCalls \cup RacsCalls

InitFn ==
    /\ fn_pc = "ready"
    /\ fn_args \in FnCalls
    /\ fn_result = EmptyDict
    /\ fn_log = <<>>
    /\ SyntheticProcess
    /\ IF fn_args.fn = "simulate_swaps"
       THEN config \in AccConfigs /\ model_file \in {"missing", "trained"}
       ELSE config = EmptyDict /\ model_file = "missing"
    /\ FsIdle /\ OptIdle /\ AccIdle /\ AbIdle /\ CallsIdle
    /\ EnginesBuilt

\* what every call leaves alone
FnFrame ==
    /\ fn_pc' = "returned"
    /\ UNCHANGED <<fn_args, fn_log>>
    /\ UNCHANGED <<fs_vars, opt_vars, acc_vars, ab_vars, env_vars, engine_vars, call_vars>>

GetProductFootprint ==
    /\ fn_pc = "ready"
    /\ fn_args.fn = "get_product_footprint"
    /\ fn_result' = get_product_footprint(Get(fn_args.item, "product_id", ""))
    /\ FnFrame

MarginalAbatementCost ==
    /\ fn_pc = "ready"
    /\ fn_args.fn = "marginal_abatement_cost"
    /\ fn_result' = marginal_abatement_cost(fn_args.cost_original, fn_args.cost_optimized,
                         fn_args.emissions_original, fn_args.emissions_optimized)
    /\ FnFrame

OptimizeBasket ==
    /\ fn_pc = "ready"
    /\ fn_args.fn = "optimize_basket"
    /\ fn_result' = optimize_basket(fn_args.basket, fn_args.constraints, config)
    /\ FnFrame

CalculateBasketEmissions ==
    /\ fn_pc = "ready"
    /\ fn_args.fn = "calculate_basket_emissions"
    /\ fn_result' = calculate_basket_emissions(fn_args.basket)
    /\ FnFrame

\* simulate_swaps on an AcceptanceModel(config)
SimulateSwaps ==
    /\ fn_pc = "ready"
    /\ fn_args.fn = "simulate_swaps"
    /\ \E trained_probs \in [DOMAIN fn_args.swaps -> TrainedProbs] :
          fn_result' = simulate_swaps(load_model(config, model_file), fn_args.swaps,
                                      fn_args.message_type, trained_probs)
    /\ FnFrame

\* risk_adjusted_carbon_score, confidence_level defaulting to 0.95
RiskAdjustedCarbonScore ==
    /\ fn_pc = "ready"
    /\ fn_args.fn = "risk_adjusted_carbon_score"
    /\ fn_result' = [racs |-> risk_adjusted_carbon_score(fn_args.emissions_mean,
                                   fn_args.emissions_variance,
                                   Get(fn_args, "confidence_level", 95))]
    /\ FnFrame

NextFn ==
    \/ GetProductFootprint
    \/ RiskAdjustedCarbonScore
    \/ SimulateSwaps
    \/ CalculateBasketEmissions
    \/ MarginalAbatementCost
    \/ OptimizeBasket

SpecFn == InitFn /\ [][NextFn]_vars

(***************************************************************************)
(* Runs: find_substitutes and optimize_basket called one after another, in *)
(* one process or in a fresh one over the same stored database             *)
(***************************************************************************)
\* the runs a behaviour may hold
MaxRuns == 3

RunBaskets ==
    { <<PlainItem("apple_001", 1)>>,
      <<PlainItem("milk_001", 1), PlainItem("apple_001", 1)>> }

RunCalls ==
    {[fn |-> "find_substitutes", product_id |-> pid, constraints |-> EmptyDict,
      max_results |-> 1] : pid \in {"apple_001", "milk_001"}}
    \cup {[fn |-> "optimize_basket", basket |-> b, constraints |-> c] :
            b \in RunBaskets, c \in OptKey("max_price_delta", {600})}

InitRuns ==
    /\ fn_pc = "ready"
    /\ fn_args \in RunCalls
    /\ fn_result = EmptyDict
    /\ fn_log = <<>>
    /\ config = EmptyDict
    /\ model_file = "missing"
    /\ set_order \in SetOrders
    /\ FsIdle /\ OptIdle /\ AccIdle /\ AbIdle /\ CallsIdle
    /\ (EnginesBuilt \/ EnginesLoaded)

RunFindSubstitutes ==
    /\ fn_pc = "ready"
    /\ fn_args.fn = "find_substitutes"
    /\ fn_result' = [substitutes |->
            find_substitutes(fn_args.product_id, fn_args.constraints,
                             fn_args.max_results)]
    /\ FnFrame

\* the run that has returned, as the log keeps it
RunEntry(new_process) ==
    [args |-> fn_args, result |-> fn_result, process_ended |-> new_process]

\* a further call on the same objects: the engines keep the database they
\* have, and the process its set order
NextRun ==
    /\ fn_pc = "returned"
    /\ Len(fn_log) < MaxRuns - 1
    /\ fn_log' = Append(fn_log, RunEntry(FALSE))
    /\ fn_args' \in RunCalls
    /\ fn_pc' = "ready"
    /\ fn_result' = EmptyDict
    /\ UNCHANGED <<fs_vars, opt_vars, acc_vars, ab_vars, env_vars, engine_vars, call_vars>>

\* a further call in a new process: the engines are constructed again from the
\* same configuration and load the same database, and the hashes of str are
\* seeded again
NextProcess ==
    /\ fn_pc = "returned"
    /\ Len(fn_log) < MaxRuns - 1
    /\ fn_log' = Append(fn_log, RunEntry(TRUE))
    /\ fn_args' \in RunCalls
    /\ fn_pc' = "ready"
    /\ fn_result' = EmptyDict
    /\ set_order' \in SetOrders
    /\ UNCHANGED <<config, model_file>>
    /\ UNCHANGED <<fs_vars, opt_vars, acc_vars, ab_vars, engine_vars, call_vars>>

NextRuns ==
    \/ RunFindSubstitutes
    \/ OptimizeBasket
    \/ NextRun
    \/ NextProcess

SpecRuns == InitRuns /\ [][NextRuns]_vars

(***************************************************************************)
(* The footprint repository and the substitute catalog under the analysis  *)
(* operations, called one after another on the engines once built          *)
(***************************************************************************)
\* the category index with the list of original's category extended in place:
\* what _get_candidates would leave had it taken that list as its candidates
category_index_after_get_candidates_Aliased(index, original) ==
    IF original.category \in DOMAIN index
           /\ original.category \in protein_categories \cup milk_categories
    THEN [index EXCEPT ![original.category] = @ \o @]
    ELSE index

\* the category index after _get_candidates(original): candidates is a new
\* list, and extend() copies the ids of the index's lists into it
category_index_after_get_candidates(index, original) == index

\* the category index after find_substitutes(product_id, ...)
category_index_after_find_substitutes(index, product_id) ==
    IF product_id \notin DOMAIN product_db THEN index
    ELSE category_index_after_get_candidates(index, product_db[product_id])

\* the category index after optimize_basket(b, ...): one or more
\* find_substitutes calls per position, on the original product
RECURSIVE category_index_after_optimize_basket(_, _)
category_index_after_optimize_basket(index, b) ==
    IF b = <<>> THEN index
    ELSE category_index_after_optimize_basket(
             category_index_after_find_substitutes(index, b[1].product_id),
             Tail(b))

\* the constraint dicts of the find_substitutes calls
StoreConstraintSets ==
    {a @@ b : a \in OptKey("vegetarian", {TRUE}), b \in OptKey("max_price", {500})}

InitStores ==
    /\ fn_pc = "ready"
    /\ fn_args = EmptyDict
    /\ fn_result = EmptyDict
    /\ fn_log = <<>>
    /\ config = EmptyDict
    /\ model_file = "missing"
    /\ set_order \in SetOrders
    /\ FsIdle /\ OptIdle /\ AccIdle /\ AbIdle /\ CallsIdle
    /\ (EnginesBuilt \/ EnginesLoaded)

\* what a call leaves alone besides the stores
StoresFrame ==
    /\ fn_pc = "ready"
    /\ fn_pc' = "returned"
    /\ UNCHANGED fn_log
    /\ UNCHANGED <<fs_vars, opt_vars, acc_vars, ab_vars, env_vars, call_vars>>

\* get_product_footprint reads footprint_db and returns the entry found
StoresGetProductFootprint ==
    /\ StoresFrame
    /\ \E c \in FootprintCalls :
          /\ fn_args' = c
          /\ fn_result' = get_product_footprint(Get(c.item, "product_id", ""))
    /\ UNCHANGED engine_vars

\* calculate_basket_emissions builds its totals from the footprints it reads
StoresCalculateBasketEmissions ==
    /\ StoresFrame
    /\ \E c \in EmissionsCalls :
          /\ fn_args' = c
          /\ fn_result' = calculate_basket_emissions(c.basket)
    /\ UNCHANGED engine_vars

\* find_substitutes reads product_db and embeddings, and copies ids out of
\* category_index
StoresFindSubstitutes ==
    /\ StoresFrame
    /\ \E pid \in ProductIds \cup UnknownIds, cons \in StoreConstraintSets :
          /\ fn_args' = [fn |-> "find_substitutes", product_id |-> pid,
                         constraints |-> cons]
          /\ fn_result' = find_substitutes(pid, cons, OptimizerMaxResults)
          /\ category_index' = category_index_after_find_substitutes(category_index, pid)
    /\ UNCHANGED <<product_db, embeddings, footprint_db>>

\* optimize_basket reaches the catalog through get_substitutes and
\* get_product_info
StoresOptimizeBasket ==
    /\ StoresFrame
    /\ \E c \in OptimizeCalls :
          /\ fn_args' = c
          /\ fn_result' = optimize_basket(c.basket, c.constraints, config)
          /\ category_index' = category_index_after_optimize_basket(category_index, c.basket)
    /\ UNCHANGED <<product_db, embeddings, footprint_db>>

\* the caller goes on to its next call, on the engines as the last one left
\* them
StoresNextCall ==
    /\ fn_pc = "returned"
    /\ fn_pc' = "ready"
    /\ fn_args' = EmptyDict
    /\ fn_result' = EmptyDict
    /\ UNCHANGED fn_log
    /\ UNCHANGED <<fs_vars, opt_vars, acc_vars, ab_vars, env_vars, engine_vars, call_vars>>

NextStores ==
    \/ StoresNextCall
    \/ StoresGetProductFootprint
    \/ StoresCalculateBasketEmissions
    \/ StoresFindSubstitutes
    \/ StoresOptimizeBasket

SpecStores == InitStores /\ [][NextStores]_vars

(***************************************************************************)
(* One pass of "for sub in substitutes": a swap applied to a beam state's  *)
(* basket, checked and scored                                              *)
(***************************************************************************)
\* the products named as substitutes: two of the catalog and one it lacks
SwapSubstituteIds == {"tofu_001", "beans_001"} \cup UnknownIds

\* a SwapCandidate naming sub as the substitute of orig
SwapCandidateOf(orig, sub) ==
    [original_product_id |-> orig,
     substitute_product_id |-> sub,
     emissions_reduction |-> ShelfInfo(orig).emissions - ShelfInfo(sub).emissions,
     cost_change |-> ShelfInfo(sub).price - ShelfInfo(orig).price,
     similarity_score |-> 0,
     category |-> "Unknown"]

\* the passes: a basket, a position of it, a swap for the product there
SwapPasses ==
    UNION {{[fn |-> "apply_swap", basket |-> b, product_idx |-> i,
             swap |-> SwapCandidateOf(b[i].product_id, sub), constraints |-> c] :
               i \in DOMAIN b, sub \in SwapSubstituteIds,
               c \in OptKey("max_price_delta", {600})} : b \in SmallBaskets}

\* the configurations of the optimizer that scores the pass: the defaults, and
\* each weight overridden on its own (in tenths)
WeightConfigs ==
    {EmptyDict, "weight_emissions" :> 20, "weight_cost" :> 2,
     "weight_dissimilarity" :> 10, "weight_health" :> 0}

InitSwap ==
    /\ fn_pc = "ready"
    /\ fn_args \in SwapPasses
    /\ fn_result = EmptyDict
    /\ fn_log = <<>>
    /\ config \in WeightConfigs
    /\ model_file = "missing"
    /\ SyntheticProcess
    /\ FsIdle /\ OptIdle /\ AccIdle /\ AbIdle /\ CallsIdle
    /\ EnginesBuilt

\* new_basket = self._apply_swap(...); if it satisfies the constraints it is
\* scored and appended to new_beam
TrySwap ==
    /\ fn_pc = "ready"
    /\ \E new_basket \in {apply_swap(fn_args.basket, fn_args.product_idx, fn_args.swap)} :
          fn_result' =
              IF satisfies_constraints(new_basket, fn_args.basket,
                                       fn_args.constraints, config)
              THEN [new_basket |-> new_basket, appended |-> TRUE,
                    score |-> compute_objective(new_basket, fn_args.basket, config)]
              ELSE [new_basket |-> new_basket, appended |-> FALSE]
    /\ FnFrame

NextSwap == TrySwap

SpecSwap == InitSwap /\ [][NextSwap]_vars

(***************************************************************************)
(* Properties of optimize_basket                                           *)
(***************************************************************************)
\* the price delta in force, as the claims state it: the constraints' value,
\* else the configured value, else 0.03
PriceDeltaInForce ==
    IF "max_price_delta" \in DOMAIN constraints THEN constraints["max_price_delta"]
    ELSE IF "max_price_delta" \in DOMAIN config THEN config["max_price_delta"]
    ELSE 30

\* a beam state that a swap produced
Swapped(st) == \E i \in DOMAIN basket : st.basket[i].product_id # basket[i].product_id

\* C1: the basket optimize_basket returns never has higher total emissions
\* than the original basket (COG >= 0).
C1_OptimizedNeverWorse ==
    opt_pc = "done" =>
        /\ BasketEmissions(result.optimized_basket) <= BasketEmissions(basket)
        /\ result.cog >= 0

\* C2: when the original cost is > 0 the returned basket's cost differs from
\* it by at most max_price_delta of the original cost; when the original cost
\* is 0 the price check rejects nothing: every position that has substitutes
\* leaves the beam swapped, whatever the new cost.
C2_PriceDeltaBound ==
    opt_pc = "done" =>
        /\ BasketCost(basket) > 0 =>
              Abs(result.cost - BasketCost(basket)) * 1000
                  <= PriceDeltaInForce * BasketCost(basket)
        /\ BasketCost(basket) = 0 =>
              \A i \in DOMAIN basket :
                  find_substitutes(basket[i].product_id, constraints,
                                   OptimizerMaxResults) # <<>>
                    => result.optimized_basket[i].product_id # basket[i].product_id

\* C2 witness: a swap was made on a basket of positive cost and changed the
\* cost, and a swap was made on a basket of cost 0
C2_Witness_SwapChangedCost ==
    /\ opt_pc = "done"
    /\ BasketCost(basket) > 0
    /\ result.cost # BasketCost(basket)
    /\ result.optimized_basket # basket

C2_Witness_FreeBasketSwapped ==
    /\ opt_pc = "done"
    /\ basket # <<>>
    /\ BasketCost(basket) = 0
    /\ result.cost > 0

\* C3: 0 <= COG_ratio <= 1 when the original emissions are > 0, and
\* COG_ratio = 0 when they are 0.
C3_CogRatioInUnitInterval ==
    opt_pc = "done" =>
        /\ BasketEmissions(basket) > 0 =>
              /\ 0 <= result.cog_ratio.num
              /\ result.cog_ratio.num <= result.cog_ratio.den
        /\ BasketEmissions(basket) = 0 => result.cog_ratio.num = 0

\* a catalog product that find_substitutes offers for pid's category or family
\* under the constraints, with strictly lower emissions than the item, that
\* keeps the one-item basket within the price delta
GoodSubstitute(item, id) ==
    /\ item.product_id \in ProductIds
    /\ id \in filter_by_constraints(get_candidates(product_db[item.product_id],
                                                    constraints), constraints)
    /\ id # item.product_id
    /\ product_db[id].emissions < Get(item, "emissions", 0)
    /\ Abs(product_db[id].price * item.quantity - item.price * item.quantity) * 1000
          <= PriceDeltaInForce * item.price * item.quantity

\* C4: a one-item basket whose item has a strictly lower-emission,
\* price-delta-compliant substitute in its category or family yields
\* COG_ratio > 0 and a swap list with exactly one entry.
C4_OneItemBasketIsSwapped ==
    (opt_pc = "done" /\ Len(basket) = 1 /\ BasketCost(basket) > 0
        /\ \E id \in ProductIds : GoodSubstitute(basket[1], id))
      => /\ result.cog_ratio.num > 0
         /\ Len(extract_swaps(basket, result.optimized_basket)) = 1

\* what the catalog says of an item's product
IsVegetarian(item) == ShelfInfo(item.product_id).vegetarian

AllergensOf(item) == ShelfInfo(item.product_id).allergens

\* C8: every basket that a swap produced and the beam keeps satisfies the
\* dietary and allergen constraints over all its items, as the substitute
\* filters judge a product: under vegetarian no item is non-vegetarian, under
\* vegan no item is non-vegetarian or tagged dairy, and no item carries an
\* excluded allergen.
C8_BeamBasketsRespectDiet ==
    \A s \in DOMAIN beam :
        Swapped(beam[s]) =>
            \A i \in DOMAIN beam[s].basket :
                LET item == beam[s].basket[i]
                IN  /\ Get(constraints, "vegetarian", FALSE) => IsVegetarian(item)
                    /\ Get(constraints, "vegan", FALSE) =>
                          IsVegetarian(item) /\ "dairy" \notin AllergensOf(item)
                    /\ Get(constraints, "allergens", {}) \cap AllergensOf(item) = {}

\* C8 as the code has it: every basket that a swap produced and the beam
\* keeps passes the dietary and allergen rules with each item judged by its own
\* keys, an item without a vegetarian key counting as vegetarian and one
\* without an allergens key as free of allergens; every swapped-in item
\* carries the catalog's flags, so it is judged as the substitute filters do.
C8_BeamBasketsRespectItemFlags ==
    \A s \in DOMAIN beam :
        Swapped(beam[s]) =>
            \A i \in DOMAIN beam[s].basket :
                LET item == beam[s].basket[i]
                    veg == Get(item, "vegetarian", TRUE)
                    tags == Get(item, "allergens", {})
                IN  /\ Get(constraints, "vegetarian", FALSE) => veg
                    /\ Get(constraints, "vegan", FALSE) => veg /\ "dairy" \notin tags
                    /\ Get(constraints, "allergens", {}) \cap tags = {}
                    /\ item.product_id # basket[i].product_id =>
                          veg = IsVegetarian(item) /\ tags = AllergensOf(item)

\* C8 witness: under vegan a swap was kept in a basket whose other item,
\* not swapped, carries its own dietary keys
C8_Witness_SwapBesideFlaggedItem ==
    /\ Get(constraints, "vegan", FALSE)
    /\ \E s \in DOMAIN beam :
          /\ Swapped(beam[s])
          /\ \E i \in DOMAIN basket :
                /\ beam[s].basket[i] = basket[i]
                /\ "vegetarian" \in DOMAIN basket[i]

\* find_substitutes has no candidate for the original product at position i
NoCandidates(i) ==
    find_substitutes(basket[i].product_id, constraints, OptimizerMaxResults) = <<>>

\* C12: for a product unknown to the catalog find_substitutes returns the
\* empty list; across a position without candidates the beam is carried
\* unmodified; a basket made only of such products is returned unchanged,
\* with COG = 0 and MAC = +infinity.
C12_NoCandidatesCarriesBeam ==
    [][ /\ \A i \in DOMAIN basket :
              basket[i].product_id \notin DOMAIN product_db => NoCandidates(i)
        /\ (opt_pc = "search" /\ product_idx \in DOMAIN basket
                /\ NoCandidates(product_idx) /\ product_idx' = product_idx + 1)
              => beam' = beam
        /\ (opt_pc' = "done" /\ \A i \in DOMAIN basket : NoCandidates(i))
              => /\ result'.optimized_basket = basket
                 /\ result'.cog = 0
                 /\ result'.mac_basket.inf ]_vars

\* C12 witness: a position without candidates was passed by a beam that
\* holds a swap made at an earlier position
C12_Witness_SwapCarriedAcross ==
    /\ opt_pc = "search"
    /\ product_idx = 3
    /\ NoCandidates(2)
    /\ \E s \in DOMAIN beam : beam[s].basket[1].product_id # basket[1].product_id

\* C12 witness: a basket of unknown products only was returned
C12_Witness_UnknownOnlyReturned ==
    /\ opt_pc = "done"
    /\ basket # <<>>
    /\ \A i \in DOMAIN basket : basket[i].product_id \notin DOMAIN product_db

\* at position i candidates exist, and no state of the beam has a swapped
\* basket that satisfies the constraints
AllRejected(i) ==
    LET substitutes == get_substitutes(basket[i].product_id, constraints)
    IN  /\ substitutes # <<>>
        /\ \A s \in DOMAIN beam :
              Successors(beam[s], substitutes, basket, i, constraints, config) = <<>>

\* C21: if at some position candidates exist but every candidate basket of
\* every beam state is rejected by the constraint check, no state is carried
\* forward: the beam is empty after that position, and optimize_basket returns
\* the original basket unmodified (swaps made at earlier positions are lost).
C21_AllRejectedEmptiesBeam ==
    [][ /\ (opt_pc = "search" /\ product_idx \in DOMAIN basket
                /\ AllRejected(product_idx) /\ product_idx' = product_idx + 1)
              => beam' = <<>>
        /\ (opt_pc' = "done" /\ product_idx > 1 /\ AllRejected(product_idx - 1))
              => result'.optimized_basket = basket ]_vars

\* C21, as the code has it: across a position at which candidates exist but
\* every candidate basket of every beam state is rejected, the beam stays as
\* it was, with the swaps made at earlier positions; optimize_basket returns
\* the first state of the final beam, and the original basket only when that
\* beam is empty.
C21_AllRejectedKeepsBeam ==
    [][ /\ (opt_pc = "search" /\ product_idx \in DOMAIN basket
                /\ AllRejected(product_idx) /\ product_idx' = product_idx + 1)
              => beam' = beam
        /\ opt_pc' = "done"
              => result'.optimized_basket =
                    IF beam = <<>> THEN basket ELSE beam[1].basket ]_vars

\* C21 witness: the search has passed a position at which every candidate
\* basket was rejected, with a beam that holds a swap made before it
C21_Witness_RejectedAfterSwap ==
    /\ opt_pc = "search"
    /\ product_idx = 3
    /\ AllRejected(2)
    /\ \E s \in DOMAIN beam : beam[s].basket[1].product_id # basket[1].product_id

\* the product ids _get_substitutes offers for the original product at j
CandidateIds(j) ==
    LET substitutes == get_substitutes(basket[j].product_id, constraints)
    IN  {substitutes[i].substitute_product_id : i \in DOMAIN substitutes}

\* C22: after the search has processed positions 1..k, every beam state holds
\* at each position j <= k the original item or a substitute drawn from the
\* candidates of the ORIGINAL product at j, and at each j > k the original
\* item: a substitute is never substituted again.
C22_FreezeTheOrigin ==
    opt_pc \in {"search", "done"} =>
        \A s \in DOMAIN beam :
            /\ Len(beam[s].basket) = Len(basket)
            /\ \A j \in DOMAIN basket :
                  \/ beam[s].basket[j] = basket[j]
                  \/ /\ j < product_idx
                     /\ beam[s].basket[j].product_id \in CandidateIds(j)

\* C22 witness: a beam state with substitutes at two processed positions
C22_Witness_TwoSwaps ==
    /\ opt_pc = "search"
    /\ product_idx = 3
    /\ \E s \in DOMAIN beam :
          \A j \in 1..2 : beam[s].basket[j].product_id # basket[j].product_id

\* C23: after each position's transition the beam is sorted ascending by the
\* objective J of its states and holds at most beam_width states, and the
\* basket finally returned is a state of minimum J in the final beam.
C23_BeamSortedAndCut ==
    opt_pc \in {"search", "done"} =>
        /\ Len(beam) <= beam_width(config)
        /\ \A s \in DOMAIN beam :
              beam[s].score = compute_objective(beam[s].basket, basket, config)
        /\ \A s, t \in DOMAIN beam : s < t => beam[s].score <= beam[t].score
        /\ (opt_pc = "done" /\ beam # <<>>) =>
              \E s \in DOMAIN beam :
                  /\ result.optimized_basket = beam[s].basket
                  /\ \A t \in DOMAIN beam : beam[s].score <= beam[t].score

\* C23 witness: a returned basket taken from a final beam of several states
\* that do not all score alike
C23_Witness_BestOfSeveral ==
    /\ opt_pc = "done"
    /\ Len(beam) >= 2
    /\ beam[1].score < beam[Len(beam)].score
    /\ result.optimized_basket = beam[1].basket

\* C23 witness of the cut: a beam filled to a beam width of one after a
\* position that has substitutes
C23_Witness_CutToWidth ==
    /\ opt_pc = "search"
    /\ product_idx > 1
    /\ beam_width(config) = 1
    /\ Len(beam) = 1
    /\ beam[1].basket # basket

\* C24: the basket optimize_basket returns never has a higher objective J,
\* scored against the original basket, than the original basket itself.
C24_ReturnedNeverWorseInJ ==
    opt_pc = "done" =>
        compute_objective(result.optimized_basket, basket, config)
            <= compute_objective(basket, basket, config)

\* nb is b with at most position i replaced, by an item of b[i]'s quantity
SwapOf(nb, b, i) ==
    /\ Len(nb) = Len(b)
    /\ \A j \in DOMAIN b : j # i => nb[j] = b[j]
    /\ Get(nb[i], "quantity", 1) = Get(b[i], "quantity", 1)

\* C27: a swap produces a new basket of the same length in which only the
\* swapped position differs and the swapped item keeps the quantity of the
\* item it replaces; optimize_basket changes neither the caller's basket nor
\* the baskets of the beam states it swaps from.
C27_SwapTouchesOnePosition ==
    [][ /\ basket' = basket
        /\ (opt_pc = "search" /\ product_idx' = product_idx + 1) =>
              LET substitutes == get_substitutes(basket[product_idx].product_id,
                                                 constraints)
              IN  /\ \A t \in DOMAIN beam' :
                        \E s \in DOMAIN beam :
                            SwapOf(beam'[t].basket, beam[s].basket, product_idx)
                  /\ \A s \in DOMAIN beam :
                        \A k \in DOMAIN substitutes :
                            SwapOf(apply_swap(beam[s].basket, product_idx,
                                              substitutes[k]),
                                   beam[s].basket, product_idx)
        /\ opt_pc' = "done" => Len(result'.optimized_basket) = Len(basket) ]_vars

\* C27 witness: a beam state whose second position was swapped, of a quantity
\* other than 1, after its first position had been swapped
C27_Witness_SecondPositionSwapped ==
    /\ opt_pc = "search"
    /\ product_idx = 3
    /\ \E s \in DOMAIN beam :
          /\ beam[s].basket[1].product_id # basket[1].product_id
          /\ beam[s].basket[2].product_id # basket[2].product_id
          /\ beam[s].basket[2].quantity = 2

(***************************************************************************)
(* Properties of find_substitutes                                          *)
(***************************************************************************)
\* the emissions reduction of a returned candidate relative to the original
Reduction(c) == product_db[fs_product_id].emissions - c.emissions

\* C5: the candidates are returned by descending emissions reduction, ties by
\* descending similarity, and the result is the first max_results entries of
\* that ranking: no candidate the truncation leaves out has a larger
\* reduction than one that is returned.
C5_RankedByDescendingReduction ==
    fs_pc = "returned" =>
        /\ \A i, j \in DOMAIN fs_result :
              i < j =>
                \/ Reduction(fs_result[i]) > Reduction(fs_result[j])
                \/ /\ Reduction(fs_result[i]) = Reduction(fs_result[j])
                   /\ fs_result[i].similarity_score >= fs_result[j].similarity_score
        /\ \A c \in Range(fs_ranked) \ Range(fs_result) :
              \A r \in Range(fs_result) : Reduction(c) <= Reduction(r)

\* C6: every returned candidate satisfies all supplied filters: vegetarian
\* under vegetarian; vegetarian and not tagged dairy under vegan; no excluded
\* allergen; unit price at most max_price whenever a max_price is supplied.
C6_ResultPassesAllFilters ==
    fs_pc = "returned" =>
        \A i \in DOMAIN fs_result :
            LET p == product_db[fs_result[i].product_id]
            IN  /\ ("vegetarian" \in DOMAIN fs_constraints
                        /\ fs_constraints["vegetarian"]) => p.vegetarian
                /\ ("vegan" \in DOMAIN fs_constraints /\ fs_constraints["vegan"])
                      => (p.vegetarian /\ "dairy" \notin p.allergens)
                /\ "allergens" \in DOMAIN fs_constraints
                      => fs_constraints["allergens"] \cap p.allergens = {}
                /\ "max_price" \in DOMAIN fs_constraints
                      => p.price <= fs_constraints["max_price"]

\* the part of C6 that holds: the dietary and allergen filters always, the
\* price filter for a max_price other than 0
C6_ResultPassesFiltersButZeroPrice ==
    fs_pc = "returned" =>
        \A i \in DOMAIN fs_result :
            LET p == product_db[fs_result[i].product_id]
            IN  /\ ("vegetarian" \in DOMAIN fs_constraints
                        /\ fs_constraints["vegetarian"]) => p.vegetarian
                /\ ("vegan" \in DOMAIN fs_constraints /\ fs_constraints["vegan"])
                      => (p.vegetarian /\ "dairy" \notin p.allergens)
                /\ "allergens" \in DOMAIN fs_constraints
                      => fs_constraints["allergens"] \cap p.allergens = {}
                /\ ("max_price" \in DOMAIN fs_constraints
                        /\ fs_constraints["max_price"] # 0)
                      => p.price <= fs_constraints["max_price"]

\* C7: every candidate returned for product p has p's category, or its
\* category and p's both belong to the protein family, or both to the milk
\* family; p itself is never returned.
C7_CandidatesStayInFamily ==
    fs_pc = "returned" =>
        \A i \in DOMAIN fs_result :
            LET cat == fs_result[i].category
                own == product_db[fs_product_id].category
                protein == {"Beef", "Chicken", "Pork", "Fish", "Tofu", "Tempeh", "Legumes"}
                milk == {"Milk", "Plant Milk"}
            IN  /\ fs_result[i].product_id # fs_product_id
                /\ \/ cat = own
                   \/ cat \in protein /\ own \in protein
                   \/ cat \in milk /\ own \in milk

\* C7 witness: a candidate of another category of the family is returned
C7_Witness_CrossCategory ==
    /\ fs_pc = "returned"
    /\ \E i \in DOMAIN fs_result :
          fs_result[i].category # product_db[fs_product_id].category

\* C7 witness: a product of a category outside both families gets a
\* candidate, of its own category
C7_Witness_OtherCategory ==
    /\ fs_pc = "returned"
    /\ fs_product_id \in DOMAIN product_db
    /\ product_db[fs_product_id].category \notin protein_categories \cup milk_categories
    /\ fs_result # <<>>

(***************************************************************************)
(* Properties of get_product_footprint                                     *)
(***************************************************************************)
\* the default footprint of the claims: mean 5.0, variance 2.0, Unknown
IsDefaultFootprint(f) ==
    f.emissions_mean = 50 /\ f.emissions_variance = 200 /\ f.category = "Unknown"

\* the repository categories that are a case-insensitive substring of s
CategoriesIn(s) == {c \in DOMAIN footprint_db : Contains(Lower(s), Lower(c))}

RECURSIVE SumOver(_, _)
SumOver(f, n) == IF n = 0 THEN 0 ELSE f[n] + SumOver(f, n - 1)

\* the baskets that hold the items of b in another order
Reorderings(b) ==
    {[i \in DOMAIN b |-> b[p[i]]] :
        p \in {q \in [DOMAIN b -> DOMAIN b] : \A i, j \in DOMAIN b : q[i] = q[j] => i = j}}

\* C14: calculate_basket_emissions returns emissions = sum of mean_i *
\* quantity_i and variance = sum of variance_i * quantity_i^2 over the items'
\* resolved footprints; both totals are the same for every order of the
\* items, and 0 for the empty basket.
C14_EmissionsAggregation ==
    (fn_pc = "returned" /\ fn_args.fn = "calculate_basket_emissions") =>
        LET b == fn_args.basket
            fp == [i \in DOMAIN b |-> get_product_footprint(b[i].product_id)]
            means == [i \in DOMAIN b |-> fp[i].emissions_mean * b[i].quantity]
            variances == [i \in DOMAIN b |->
                            fp[i].emissions_variance * b[i].quantity * b[i].quantity]
        IN  /\ ~IsRaised(fn_result)
            /\ fn_result.emissions = SumOver(means, Len(b))
            /\ fn_result.variance = SumOver(variances, Len(b))
            /\ \A r \in Reorderings(b) :
                  /\ calculate_basket_emissions(r).emissions = fn_result.emissions
                  /\ calculate_basket_emissions(r).variance = fn_result.variance
            /\ b = <<>> => fn_result.emissions = 0 /\ fn_result.variance = 0

\* C14 witness: a basket of two different products, one in a quantity above 1
C14_Witness_MixedQuantities ==
    /\ fn_pc = "returned" /\ fn_args.fn = "calculate_basket_emissions"
    /\ Len(fn_args.basket) >= 2
    /\ fn_args.basket[1].product_id # fn_args.basket[2].product_id
    /\ fn_args.basket[1].quantity > 1
    /\ fn_result.variance > 0

(***************************************************************************)
(* Properties of the metrics                                               *)
(***************************************************************************)
\* mac is +infinity exactly when the reduction is <= 0, and else the ratio of
\* the cost change to the reduction
MacIs(mac, cost_change, reduction) ==
    /\ mac.inf <=> reduction <= 0
    /\ ~mac.inf => mac.num * reduction = cost_change * mac.den /\ mac.den # 0

\* C13: MAC_basket is +infinity if and only if emissions(original) -
\* emissions(optimized) <= 0, and otherwise (cost(optimized) -
\* cost(original)) / (emissions(original) - emissions(optimized)), for
\* marginal_abatement_cost and for the value optimize_basket reports.
C13_MacInfiniteIffNoReduction ==
    /\ (fn_pc = "returned" /\ fn_args.fn = "marginal_abatement_cost") =>
          MacIs(fn_result, fn_args.cost_optimized - fn_args.cost_original,
                fn_args.emissions_original - fn_args.emissions_optimized)
    /\ (fn_pc = "returned" /\ fn_args.fn = "optimize_basket") =>
          MacIs(fn_result.mac_basket,
                BasketCost(fn_result.optimized_basket) - BasketCost(fn_args.basket),
                BasketEmissions(fn_args.basket)
                    - BasketEmissions(fn_result.optimized_basket))

\* C13 witness: the optimizer reported a finite MAC, and the metrics function
\* was called with a reduction of exactly 0
C13_Witness_FiniteMacReported ==
    /\ fn_pc = "returned" /\ fn_args.fn = "optimize_basket"
    /\ ~fn_result.mac_basket.inf
    /\ fn_result.mac_basket.num # 0

C13_Witness_ZeroReduction ==
    /\ fn_pc = "returned" /\ fn_args.fn = "marginal_abatement_cost"
    /\ fn_args.emissions_original = fn_args.emissions_optimized
    /\ fn_args.cost_optimized # fn_args.cost_original

\* C17: RACS = mean + z * sqrt(variance) with z = 1.645, 1.96, 2.576 for
\* confidence 0.90, 0.95, 0.99 and 1.96 for any other level; it is never
\* below the mean, and for the same mean and level a larger variance never
\* gives a smaller RACS.
C17_RacsMonotoneInVariance ==
    (fn_pc = "returned" /\ fn_args.fn = "risk_adjusted_carbon_score") =>
        LET level == Get(fn_args, "confidence_level", 95)
            z == CASE level = 90 -> 1645 [] level = 99 -> 2576 [] OTHER -> 1960
            spread == fn_result.racs - 10000 * fn_args.emissions_mean
        IN  /\ spread >= 0
            /\ spread = z * ISqrt(100 * fn_args.emissions_variance)
            /\ \A v \in RacsVariances :
                  v >= fn_args.emissions_variance =>
                    risk_adjusted_carbon_score(fn_args.emissions_mean, v, level)
                        >= fn_result.racs

\* C17 witness: a confidence level outside the table, with a variance that
\* moves the score off the mean
C17_Witness_UnknownLevel ==
    /\ fn_pc = "returned" /\ fn_args.fn = "risk_adjusted_carbon_score"
    /\ Get(fn_args, "confidence_level", 95) \notin {90, 95, 99}
    /\ fn_result.racs > 10000 * fn_args.emissions_mean

\* what C15 says of a result of simulate_swaps
SimulationAsClaimed(swaps, r) ==
    /\ ~IsRaised(r)
    /\ Len(r.swaps) = Len(swaps)
    /\ \A i \in DOMAIN swaps :
          /\ DOMAIN r.swaps[i] = DOMAIN swaps[i] \cup {"acceptance_prob"}
          /\ \A k \in DOMAIN swaps[i] : r.swaps[i][k] = swaps[i][k]
    /\ r.bae = SumOver([i \in DOMAIN swaps |->
                          r.swaps[i].acceptance_prob
                              * Get(swaps[i], "emissions_reduction", 0)],
                      Len(swaps))
    /\ (\A i \in DOMAIN swaps : "emissions_reduction" \in DOMAIN swaps[i])
          => r.bae = behavior_adjusted_emissions(r.swaps)
    /\ r.avg_acceptance.num * Len(swaps)
          = SumOver([i \in DOMAIN swaps |-> r.swaps[i].acceptance_prob], Len(swaps))
              * r.avg_acceptance.den
    /\ swaps = <<>> => r.avg_acceptance.num = 0 /\ r.bae = 0

\* C15: simulate_swaps returns one enriched swap per input swap, in order,
\* each keeping its input fields and adding acceptance_prob; BAE is the sum
\* of acceptance_prob * emissions_reduction; the average acceptance is the
\* mean of the probabilities, and 0.0 (with BAE 0) for an empty list.
C15_SimulateSwapsEnriches ==
    (fn_pc = "returned" /\ fn_args.fn = "simulate_swaps") =>
        SimulationAsClaimed(fn_args.swaps, fn_result)

\* the part of C15 that holds: the same, when the model is None or fitted or
\* the list is empty
C15_SimulateSwapsWithUsableModel ==
    (fn_pc = "returned" /\ fn_args.fn = "simulate_swaps"
        /\ (load_model(config, model_file) \in {"None", "trained"}
               \/ fn_args.swaps = <<>>)) =>
        SimulationAsClaimed(fn_args.swaps, fn_result)

(***************************************************************************)
(* Properties of predict_acceptance                                        *)
(***************************************************************************)
\* C10: when no trained classifier is available (the model file is absent or
\* cannot be loaded), predict_acceptance does not raise, does not consult a
\* classifier (self.model is None), and returns the heuristic probability,
\* which lies in [0, 1].
C10_NoModelFileMeansHeuristic ==
    (acc_pc = "done" /\ model_file # "trained") =>
        /\ model = "None"
        /\ ~IsRaised(acc_result)
        /\ acc_result.prob = heuristic_acceptance(acc_swap, message_type)
        /\ acc_result.prob \in 0..10000

\* C16: on the heuristic path the probability is 0.17 for numeric and 0.36
\* for conversational, times 0.8 exactly when price_change > 0, times 1.2
\* exactly when emissions_reduction > 5.0, clipped to [0, 1]; for the same
\* swap the conversational value is strictly greater than the numeric one.
C16_HeuristicValues ==
    (acc_pc = "done" /\ model = "None") =>
        LET price_up == "price_change" \in DOMAIN acc_swap /\ acc_swap["price_change"] > 0
            big_cut == "emissions_reduction" \in DOMAIN acc_swap
                          /\ acc_swap["emissions_reduction"] > 50
            expected(base) == base * (IF price_up THEN 8 ELSE 10)
                                   * (IF big_cut THEN 12 ELSE 10)
        IN  /\ ~IsRaised(acc_result)
            /\ acc_result.prob \in 0..10000
            /\ message_type = "numeric" => acc_result.prob * 100 = expected(1700)
            /\ message_type = "conversational" => acc_result.prob * 100 = expected(3600)
            /\ heuristic_acceptance(acc_swap, "conversational")
                  > heuristic_acceptance(acc_swap, "numeric")

\* C16 witness: a numeric message for a swap that raises the price and cuts
\* more than 5.0
C16_Witness_BothFactors ==
    /\ acc_pc = "done" /\ model = "None" /\ message_type = "numeric"
    /\ Get(acc_swap, "price_change", 0) > 0
    /\ Get(acc_swap, "emissions_reduction", 0) > 50
    /\ acc_result.prob = 1632

\* what remains of optimize_basket: it falls with every step of the call
SearchMeasure ==
    IF opt_pc = "ready" THEN Len(basket) + 3
    ELSE IF opt_pc = "search" THEN Len(basket) + 2 - product_idx
    ELSE 0

\* C20: optimize_basket terminates on every finite basket (every step of the
\* call lowers a measure that is never negative); it goes through each
\* original position exactly once, in basket order, and the candidate baskets
\* it evaluates number at most basket_size * beam_width * 10.
C20_BoundedSearch ==
    /\ [](opt_pc \in {"ready", "search", "done"} =>
            /\ SearchMeasure >= 0
            /\ visited = [i \in 1..Len(visited) |-> i]
            /\ Len(visited) <= Len(basket)
            /\ opt_pc = "done" => Len(visited) = Len(basket)
            /\ evaluated <= Len(visited) * beam_width(config) * OptimizerMaxResults
            /\ evaluated <= Len(basket) * beam_width(config) * OptimizerMaxResults)
    /\ [][SearchMeasure' < SearchMeasure]_vars

\* C20 witness: a search that has returned and has evaluated as many
\* candidate baskets as the bound allows
C20_Witness_BoundMet ==
    /\ opt_pc = "done"
    /\ Len(basket) = 2
    /\ evaluated = Len(basket) * beam_width(config) * OptimizerMaxResults

(***************************************************************************)
(* Properties of repeated runs                                             *)
(***************************************************************************)
\* the earlier runs of the call that has just returned
EarlierRuns == {i \in DOMAIN fn_log : fn_log[i].args = fn_args}

\* the earlier runs made in the process that is still running
RunsOfThisProcess ==
    {i \in DOMAIN fn_log : \A j \in i..Len(fn_log) : ~fn_log[j].process_ended}

\* C18: two runs with the same basket, constraints, configuration and catalog
\* return the same ranked substitutes, the same optimized basket and the same
\* metric values, whatever was analyzed before.
C18_SameInputsSameResults ==
    fn_pc = "returned" =>
        \A i \in EarlierRuns : fn_log[i].result = fn_result

\* C18, within one process: a call returns what the same call returned
\* before, whatever was called in between
C18_SameProcessSameResults ==
    fn_pc = "returned" =>
        \A i \in EarlierRuns \cap RunsOfThisProcess : fn_log[i].result = fn_result

\* C18, on the synthetic database: a call returns what the same call returned
\* before, in this process or another
C18_SyntheticSameResults ==
    (fn_pc = "returned" /\ product_db = synthetic_product_db) =>
        \A i \in EarlierRuns : fn_log[i].result = fn_result

\* C18 witness: a call returns for the second time in one process, after a
\* different call
C18_Witness_RepeatedAfterOther ==
    /\ fn_pc = "returned" /\ Len(fn_log) = 2
    /\ fn_log[1].args = fn_args /\ fn_log[2].args # fn_args
    /\ RunsOfThisProcess = {1, 2}
    /\ fn_log[1].result = fn_result

\* no two candidates of a synthetic product have the same sort key
SyntheticRankingHasNoTies ==
    (fs_pc = "returned" /\ product_db = synthetic_product_db
        /\ fs_product_id \in DOMAIN product_db) =>
        \A i, j \in DOMAIN fs_ranked :
            i # j => RankKey(product_db[fs_product_id], fs_ranked[i])
                        # RankKey(product_db[fs_product_id], fs_ranked[j])

(***************************************************************************)
(* Properties of interleaved analyze_basket calls                          *)
(***************************************************************************)
\* a log entry without the position the audit_log tool reports for its event
WithoutEventId(e) ==
    IF "tool" \in DOMAIN e /\ e.tool = "audit_log"
    THEN [e EXCEPT !.result = [status |-> "logged"]]
    ELSE e

\* the entries of one caller's analysis, in the order of the log
RecordsOf(log, caller) ==
    LET Own(e) == e.caller = caller
        own == SelectSeq(log, Own)
    IN  [i \in DOMAIN own |-> WithoutEventId(own[i])]

CallEnded(t) == calls # <<>> /\ calls[t].pc \in {"returned", "raised"}

\* C19: when analyze_basket calls for different baskets are interleaved on one
\* shared CarbonAwareCheckout, each call returns (or raises) what it does when
\* run alone, and the orchestrator's log holds every entry of either
\* analysis, in the order the analysis wrote them.
C19_InterleavedAsAlone ==
    \A t \in DOMAIN calls :
        CallEnded(t) =>
            /\ calls[t].result = calls[t].alone.result
            /\ RecordsOf(audit_log, t) = RecordsOf(calls[t].alone.log, t)

\* C19 witness: both calls have returned a result, and the entries of the two
\* analyses alternate in the log
C19_Witness_EntriesInterleaved ==
    /\ CallEnded(1) /\ CallEnded(2)
    /\ calls[1].pc = "returned" /\ calls[2].pc = "returned"
    /\ Len(audit_log) = 10
    /\ \A i \in 1..9 : audit_log[i].caller # audit_log[i + 1].caller
    /\ calls[1].result.swaps # <<>>

(***************************************************************************)
(* Properties of analyze_basket                                            *)
(***************************************************************************)
\* what optimize_basket reports for a basket without emissions to save
ZeroOptimization(r) == r.emissions = 0 /\ r.cog = 0 /\ r.cog_ratio.num = 0

\* C9: analyzing an empty basket raises no exception and yields zero
\* emissions, COG = 0 and COG_ratio = 0, for optimize_basket (the
\* optimization step of the pipeline) and for the whole of analyze_basket.
C9_EmptyBasketAnalyzed ==
    ab_basket = <<>> =>
        /\ ab_pc # "raised"
        /\ ab_pc \in {"optimized", "simulated", "explained", "logged", "returned"}
              => ZeroOptimization(optimization_result)
        /\ ab_pc = "returned" => ZeroOptimization(checkout_result)

\* C25: in every result of analyze_basket, cog = emissions -
\* emissions_optimized, where emissions is the aggregator's quantity-weighted
\* total of the basket; for every basket, a quantity other than 1 included.
C25_CogIsEmissionsDifference ==
    ab_pc = "returned" =>
        checkout_result.cog
            = checkout_result.emissions - checkout_result.emissions_optimized

\* the positions at which the optimized basket holds another product than the
\* enriched basket
ChangedPositions ==
    {i \in DOMAIN enriched_basket :
        enriched_basket[i].product_id
            # optimization_result.optimized_basket[i].product_id}

\* C26: the swap list has exactly one entry per position whose product id
\* differs between the original and the optimized basket, in position order;
\* the entries' emissions_reduction sum to the optimizer's COG and their
\* price_change to cost(optimized) - cost(original).
C26_SwapListAccountsForDifference ==
    ab_pc \in {"simulated", "explained", "logged", "returned"} =>
        LET swaps == swap_simulation.swaps
            optimized == optimization_result.optimized_basket
            Before(i) == Cardinality({k \in ChangedPositions : k < i})
        IN  /\ Len(optimized) = Len(enriched_basket)
            /\ Len(swaps) = Cardinality(ChangedPositions)
            /\ \A i \in ChangedPositions :
                  /\ swaps[Before(i) + 1].original_product_id
                        = enriched_basket[i].product_id
                  /\ swaps[Before(i) + 1].substitute_product_id
                        = optimized[i].product_id
            /\ SumSeq([j \in DOMAIN swaps |-> swaps[j].emissions_reduction])
                  = optimization_result.cog
            /\ SumSeq([j \in DOMAIN swaps |-> swaps[j].price_change])
                  = optimization_result.cost - BasketCost(enriched_basket)

\* C26 witness: a result whose swap list names two positions, one of them
\* with a quantity other than 1
C26_Witness_TwoSwapsListed ==
    /\ ab_pc = "returned"
    /\ Len(checkout_result.swaps) = 2
    /\ \E i \in DOMAIN enriched_basket : enriched_basket[i].quantity # 1
    /\ checkout_result.cost_optimized # checkout_result.cost_original

(***************************************************************************)
(* Properties of the stores                                                *)
(***************************************************************************)
\* C28: no analysis operation (get_product_footprint,
\* calculate_basket_emissions, find_substitutes, optimize_basket) changes the
\* footprint repository or the substitute catalog after construction.
C28_StoresUnchanged ==
    [][ /\ footprint_db' = footprint_db
        /\ product_db' = product_db
        /\ category_index' = category_index
        /\ embeddings' = embeddings ]_vars

\* C28 witness: optimize_basket has returned a swapped basket, after having
\* fetched substitutes and resolved one of them in the catalog
C28_Witness_SwappedFromCatalog ==
    /\ fn_pc = "returned"
    /\ fn_args.fn = "optimize_basket"
    /\ \E i \in DOMAIN fn_args.basket :
          /\ fn_result.optimized_basket[i].product_id # fn_args.basket[i].product_id
          /\ fn_result.optimized_basket[i].product_id \in DOMAIN product_db

WeightOr(key, default) == IF key \in DOMAIN config THEN config[key] ELSE default

\* the sum of (1 - similarity), in thousandths, over the positions at which b
\* holds another product than original
SumOfDissimilarities(b, original) ==
    SumSeq([i \in DOMAIN b |->
        IF b[i].product_id # original[i].product_id
        THEN 1000 - compute_similarity(b[i].product_id, original[i].product_id)
        ELSE 0])

\* C30: a beam state is scored with J = alpha*emissions(B) + beta*cost(B)
\* + gamma*dissimilarity(B, original) + delta*(1 - health(B)), with the
\* defaults alpha = 1.0, beta = 0.1, gamma = 0.5, delta = 0.3, each overridable
\* on its own; dissimilarity is the sum of (1 - similarity) over the positions
\* whose product differs from the original, divided by the basket size, and
\* is 0 for the original basket.  Both sides are 10000 * len(B) * J.
C30_ObjectiveIsWeightedSum ==
    (fn_pc = "returned" /\ fn_args.fn = "apply_swap" /\ fn_result.appended) =>
        LET B == fn_result.new_basket
            n == Len(B)
            alpha == WeightOr("weight_emissions", 10)
            beta == WeightOr("weight_cost", 1)
            gamma == WeightOr("weight_dissimilarity", 5)
            delta == WeightOr("weight_health", 3)
            health_sum == SumSeq([i \in DOMAIN B |->
                              IF "health_score" \in DOMAIN B[i]
                              THEN B[i].health_score ELSE 50])
        IN  /\ fn_result.score =
                  alpha * BasketEmissions(B) * 100 * n
                    + beta * BasketCost(B) * 10 * n
                    + gamma * SumOfDissimilarities(B, fn_args.basket)
                    + delta * 10 * (100 * n - health_sum)
            /\ compute_basket_dissimilarity(fn_args.basket, fn_args.basket) = 0

\* C30 witness: a swapped basket scored under an overridden weight, with a
\* dissimilarity that is not 0
C30_Witness_ScoredWithOverride ==
    /\ fn_pc = "returned"
    /\ fn_args.fn = "apply_swap"
    /\ fn_result.appended
    /\ config # EmptyDict
    /\ SumOfDissimilarities(fn_result.new_basket, fn_args.basket) > 0

====
